---- MODULE Spec2Model ----
(***************************************************************************)
(* Expense classification service and its in-memory repositories.          *)
(*                                                                         *)
(*   services/classification.py  ClassificationService                     *)
(*   storage/repo.py             InMemoryCategoryRepository,               *)
(*                               InMemoryExpenseRepository                 *)
(*   storage/models.py           Expense, ExpenseCategory, Currency        *)
(*   llms/output.py              ExpenseCategorizationResponse             *)
(*                                                                         *)
(* Python strings are tuples of one-character strings, so that str.strip   *)
(* and f-string concatenation are computed.  Optional values (x | None)    *)
(* are tuples of length at most one: <<>> is None, <<x>> is x.             *)
(* An ExpenseCategory is the record of its fields; in memory its id is     *)
(* never assigned, and model equality is equality of the fields.           *)
(* Decimal amounts and float confidences are integers (hundredths).        *)
(***************************************************************************)
EXTENDS Integers, Sequences, FiniteSets, TLC

VARIABLES
    service,      \* ClassificationService.category_repo / expense_repo set?
    categories,   \* InMemoryCategoryRepository.categories : name -> object
    expenses,     \* InMemoryExpenseRepository.expenses : id -> object
    next_id,      \* InMemoryExpenseRepository.next_id
    call,         \* the operation invoked last, with its arguments
    raised,       \* the exception it raised, or "None"
    result,       \* the value it returned (Optional)
    trace,        \* the collaborator calls it made, in order
    text,         \* the raw text a user sent (message.text, description)
    assistant,    \* OpenAIAssistant: its configuration and token counters
    messages,     \* the message list the caller handed to completion
    provider_calls, \* client.chat.completions.create calls, with replies
    session,      \* the SQLModel Session of the DB repositories, or None
                  \* when the repositories are the in-memory ones
    answer,       \* the answer of the API or of the bot to the last request
                  \* or update, with the request or update
    user_data,    \* context.user_data of the bot conversation
    state,        \* the state of the bot conversation
    preferences,  \* the user preference table: user id -> currency
    in_flight,    \* the requests being handled at once: what each has
                  \* read and done so far
    api_key       \* EXCHANGE_RATE_API_KEY of utils/currency.py

vars == <<service, categories, expenses, next_id,
          call, raised, result, trace, text,
          assistant, messages, provider_calls, session,
          answer, user_data, state, preferences, in_flight, api_key>>

\* what no operation of the service, the API or the conversation writes
untouched == <<text, preferences, in_flight, api_key>>

\* what the API and the bot keep for a user
io == <<untouched, answer, user_data, state>>

\* the state outside the classification service and its repositories
others == <<io, assistant, messages, provider_calls, session>>

repos == <<categories, expenses, next_id>>

--------------------------------------------------------------------------
(* Bounds *)

\* expense_repo.add is enabled while next_id <= MaxExpenses
MaxExpenses == 2

--------------------------------------------------------------------------
(* Optional values and strings *)

None == <<>>
Some(x) == <<x>>

\* characters str.strip() removes and \s matches (the model's alphabet has
\* two of them: the space and the tab)
Whitespace == {" ", "\t"}

RECURSIVE lstrip(_)
lstrip(s) ==
    IF s = <<>> THEN <<>>
    ELSE IF Head(s) \in Whitespace THEN lstrip(Tail(s))
    ELSE s

RECURSIVE rstrip(_)
rstrip(s) ==
    IF s = <<>> THEN <<>>
    ELSE IF s[Len(s)] \in Whitespace THEN rstrip(SubSeq(s, 1, Len(s) - 1))
    ELSE s

\* str.strip()
strip(s) == rstrip(lstrip(s))

\* str.lower() on the model's alphabet
lower_char(c) ==
    IF c = "F" THEN "f" ELSE IF c = "T" THEN "t"
    ELSE IF c = "S" THEN "s" ELSE c
lower(s) == [i \in DOMAIN s |-> lower_char(s[i])]

\* sub in s
contains(s, sub) ==
    \E i \in 0..(Len(s) - Len(sub)) : SubSeq(s, i + 1, i + Len(sub)) = sub

\* s.startswith(p), s.endswith(p)
startswith(s, p) == Len(p) <= Len(s) /\ SubSeq(s, 1, Len(p)) = p
endswith(s, p) ==
    Len(p) <= Len(s) /\ SubSeq(s, Len(s) - Len(p) + 1, Len(s)) = p

--------------------------------------------------------------------------
(* Inputs *)

\* category names an LLM or a user may produce: a base spelling, the same
\* with leading / trailing whitespace, and the same in another letter case
\* (a different name for an exact-match lookup)
CategoryNames == {<<"f">>, <<" ", "f">>, <<"f", " ">>, <<"F">>}

\* expense descriptions: empty, whitespace-only, and two non-blank ones
Descriptions == {<<>>, <<" ">>, <<"a">>, <<" ", "a">>}

\* telegram_user_id: int | None
UserIds == {None, Some(1)}

\* (expense_description, telegram_user_id) pairs of the service calls
Requests ==
    { <<<<>>, None>>, <<<<" ">>, Some(1)>>,
      <<<<"a">>, None>>, <<<<" ", "a">>, Some(1)>> }

\* (expense_description, telegram_user_id) of persist_with_category
OverrideRequests == { <<<<"a">>, None>> }

\* Currency members used by the inputs (storage/models.py Currency)
Currency == {"USD", "EUR"}

\* ExpenseCategorizationResponse values the assistant may return
LLMResponses ==
    { [category |-> c, total_amount |-> v.total_amount,
       currency |-> v.currency, confidence |-> 95, cost |-> 1,
       comments |-> v.comments, timestamp |-> "completion"] :
        c \in CategoryNames,
        v \in { [total_amount |-> 550, currency |-> "USD",
                 comments |-> Some(<<"o", "k">>)],
                [total_amount |-> 1200, currency |-> "EUR",
                 comments |-> None] } }

\* outcome of assistant.completion: a response, or None when it raises
LLMOutcomes == {Some(r) : r \in LLMResponses} \cup {None}

NoCall == [op |-> "init"]

\* ConversationHandler: the states of the expense conversation.  ENTRY is
\* the state of a user without a conversation (its entry points apply); a
\* handler that returns END ends the conversation.
ENTRY == None
WAITING_FOR_CONFIRMATION == 0
END == -1

\* no API request has been answered, the bot holds no conversation, no
\* user has a preference, no request is being handled, and no key of the
\* exchange-rate service is configured (the default)
NoRequest ==
    /\ answer = None
    /\ user_data = <<>>
    /\ state = ENTRY
    /\ preferences = <<>>
    /\ in_flight = <<>>
    /\ api_key = <<>>

\* the model name the bot and the API configure (handlers.py, api/deps.py)
DEFAULT_MODEL == "gpt-4.1-nano-2025-04-14"

\* OpenAIAssistant(...) as constructed: the token counters start at 0
OpenAIAssistant(model, structured_output, tools) ==
    [model |-> model, structured_output |-> structured_output,
     tools |-> tools, prompt_tokens |-> 0, completion_tokens |-> 0,
     total_tokens |-> 0]

\* an assistant that has not been called: no message list, no provider call
AssistantAtRest ==
    /\ assistant = OpenAIAssistant(DEFAULT_MODEL, TRUE, FALSE)
    /\ messages = <<>>
    /\ provider_calls = <<>>

--------------------------------------------------------------------------
(* storage/repo.py: InMemoryCategoryRepository *)

\* ExpenseCategory(name=name); id stays None in memory
ExpenseCategory(name) == [id |-> None, name |-> name]

InMemoryCategoryRepository_add(cats, category) ==
    IF category.name \in DOMAIN cats
    THEN [raised |-> "CategoryCreationError", categories |-> cats]
    ELSE [raised |-> "None",
          categories |-> (category.name :> category) @@ cats]

InMemoryCategoryRepository_update(cats, category) ==
    IF category.name \notin DOMAIN cats
    THEN [raised |-> "CategoryNotFoundError", categories |-> cats]
    ELSE [raised |-> "None",
          categories |-> (category.name :> category) @@ cats]

\* get that finds nothing
InMemoryCategoryRepository_get_missing(cats, name) ==
    [raised |-> "CategoryNotFoundError", value |-> None]

InMemoryCategoryRepository_get(cats, name) ==
    IF name \notin DOMAIN cats
    THEN [raised |-> "CategoryNotFoundError", value |-> None]
    ELSE [raised |-> "None", value |-> Some(cats[name])]

InMemoryCategoryRepository_delete(cats, name) ==
    IF name \notin DOMAIN cats
    THEN [raised |-> "CategoryNotFoundError", categories |-> cats]
    ELSE [raised |-> "None",
          categories |-> [k \in DOMAIN cats \ {name} |-> cats[k]]]

--------------------------------------------------------------------------
(* storage/repo.py: InMemoryExpenseRepository *)

\* Expense(amount=..., currency=..., description=..., category=...,
\*         telegram_user_id=...): id is None until the repository sets it
Expense(amount, currency, description, category, telegram_user_id) ==
    [id |-> None, amount |-> amount, currency |-> currency,
     description |-> description, category |-> category,
     telegram_user_id |-> telegram_user_id]

InMemoryExpenseRepository_add(exps, nid, expense) ==
    LET stored == [expense EXCEPT !.id = Some(nid)]
    IN [raised |-> "None", expense |-> stored,
        expenses |-> (nid :> stored) @@ exps, next_id |-> nid + 1]

\* get written as dict.get: None for a missing id, no exception
InMemoryExpenseRepository_get_or_none(exps, expense_id) ==
    IF expense_id \notin DOMAIN exps
    THEN [raised |-> "None", value |-> None]
    ELSE [raised |-> "None", value |-> Some(exps[expense_id])]

InMemoryExpenseRepository_get(exps, expense_id) ==
    IF expense_id \notin DOMAIN exps
    THEN [raised |-> "ExpenseNotFoundError", value |-> None]
    ELSE [raised |-> "None", value |-> Some(exps[expense_id])]

InMemoryExpenseRepository_update(exps, expense) ==
    IF expense.id = None \/ expense.id[1] \notin DOMAIN exps
    THEN [raised |-> "ExpenseNotFoundError", expenses |-> exps]
    ELSE [raised |-> "None",
          expenses |-> (expense.id[1] :> expense) @@ exps]

InMemoryExpenseRepository_delete(exps, expense_id) ==
    IF expense_id \notin DOMAIN exps
    THEN [raised |-> "ExpenseNotFoundError", expenses |-> exps]
    ELSE [raised |-> "None",
          expenses |-> [k \in DOMAIN exps \ {expense_id} |-> exps[k]]]

--------------------------------------------------------------------------
(* storage/repo.py: DBCategoryRepo and DBExpenseRepo, on the tables *)

\* the primary key the database gives a new row: one more than the largest
\* one in the table
new_row_id(ids) ==
    IF ids = {} THEN 1
    ELSE 1 + (CHOOSE m \in ids : \A k \in ids : k <= m)

\* the ids of the rows of the category table
category_ids(cats) == {cats[n].id[1] : n \in DOMAIN cats}

\* session.add(category); session.commit(): the name is unique
DBCategoryRepo_add(cats, category) ==
    IF category.name \in DOMAIN cats
    THEN [raised |-> "IntegrityError", categories |-> cats]
    ELSE [raised |-> "None",
          categories |->
            (category.name :>
               [category EXCEPT !.id = Some(new_row_id(category_ids(cats)))])
            @@ cats]

\* the row is looked up by category.id and given category.name
DBCategoryRepo_update(cats, category) ==
    LET rows == {n \in DOMAIN cats : cats[n].id = category.id}
    IN  IF rows = {}
        THEN [raised |-> "CategoryNotFoundError", categories |-> cats]
        ELSE IF category.name \in DOMAIN cats \ rows
        THEN [raised |-> "IntegrityError", categories |-> cats]
        ELSE [raised |-> "None",
              categories |->
                (category.name :> category)
                @@ [n \in DOMAIN cats \ rows |-> cats[n]]]

DBCategoryRepo_get(cats, name) ==
    IF name \notin DOMAIN cats
    THEN [raised |-> "CategoryNotFoundError", value |-> None]
    ELSE [raised |-> "None", value |-> Some(cats[name])]

DBCategoryRepo_delete(cats, name) ==
    IF name \notin DOMAIN cats
    THEN [raised |-> "CategoryNotFoundError", categories |-> cats]
    ELSE [raised |-> "None",
          categories |-> [k \in DOMAIN cats \ {name} |-> cats[k]]]

\* [category.name for category in categories]
DBCategoryRepo_list(cats) == DOMAIN cats

\* session.add(expense); session.commit()
DBExpenseRepo_add(exps, expense) ==
    LET stored == [expense EXCEPT !.id = Some(new_row_id(DOMAIN exps))]
    IN  [raised |-> "None", expense |-> stored,
         expenses |-> (stored.id[1] :> stored) @@ exps]

DBExpenseRepo_get(exps, expense_id) ==
    IF expense_id \notin DOMAIN exps
    THEN [raised |-> "ExpenseNotFoundError", value |-> None]
    ELSE [raised |-> "None", value |-> Some(exps[expense_id])]

\* DBExpenseRepo.delete that removes nothing
DBExpenseRepo_delete_nothing(exps, expense_id) ==
    IF expense_id \notin DOMAIN exps
    THEN [raised |-> "ExpenseNotFoundError", expenses |-> exps]
    ELSE [raised |-> "None", expenses |-> exps]

DBExpenseRepo_delete(exps, expense_id) ==
    IF expense_id \notin DOMAIN exps
    THEN [raised |-> "ExpenseNotFoundError", expenses |-> exps]
    ELSE [raised |-> "None",
          expenses |-> [k \in DOMAIN exps \ {expense_id} |-> exps[k]]]

\* select(Expense).where(Expense.telegram_user_id == telegram_user_id)
DBExpenseRepo_list_by_user(exps, telegram_user_id) ==
    {exps[i] : i \in {k \in DOMAIN exps :
                         exps[k].telegram_user_id = Some(telegram_user_id)}}

--------------------------------------------------------------------------
(* The repositories the service was given: in memory, or on a session *)

category_repo_get(cats, name) ==
    IF session = None THEN InMemoryCategoryRepository_get(cats, name)
    ELSE DBCategoryRepo_get(cats, name)

category_repo_add(cats, category) ==
    IF session = None THEN InMemoryCategoryRepository_add(cats, category)
    ELSE DBCategoryRepo_add(cats, category)

expense_repo_add(exps, nid, expense) ==
    IF session = None THEN InMemoryExpenseRepository_add(exps, nid, expense)
    ELSE LET r == DBExpenseRepo_add(exps, expense)
         IN  [raised |-> r.raised, expense |-> r.expense,
              expenses |-> r.expenses, next_id |-> nid]

--------------------------------------------------------------------------
(* services/classification.py: ClassificationService *)

\* ClassificationResult with is_persisted defaulting to True
ClassificationResult_persisted(response) ==
    [response |-> response, expense |-> None, category |-> None,
     is_persisted |-> TRUE]

\* ClassificationResult(response=response): the dataclass defaults
ClassificationResult(response) ==
    [response |-> response, expense |-> None, category |-> None,
     is_persisted |-> FALSE]

\* is_blank testing the description without stripping it
is_blank_unstripped(expense_description) == expense_description = <<>>

\* not expense_description.strip()
is_blank(expense_description) == strip(expense_description) = <<>>

\* _ensure_repos raising only when both repositories are missing
ensure_repos_either(svc) == ~(~svc.category_repo /\ ~svc.expense_repo)

\* _ensure_repos returns (TRUE) or raises RuntimeError (FALSE)
ensure_repos(svc) == ~(~svc.category_repo \/ ~svc.expense_repo)

\* category_name without the strip
category_name_raw(response) == response.category

\* category_name = response.category.strip()
category_name(response) == strip(response.category)

\* the literal text of the f-string "User override from '...'"
USER_OVERRIDE_FROM ==
    <<"U", "s", "e", "r", " ", "o", "v", "e", "r", "r", "i", "d", "e", " ",
      "f", "r", "o", "m", " ", "'">>

\* override_comment keeping the LLM's comments in front of the note
override_comment_appended(llm_response) ==
    (IF llm_response.comments = None THEN <<>>
     ELSE llm_response.comments[1] \o <<" ">>)
    \o USER_OVERRIDE_FROM \o llm_response.category \o <<"'">>

\* f"User override from '{llm_response.category}'"
override_comment(llm_response) ==
    USER_OVERRIDE_FROM \o llm_response.category \o <<"'">>

\* override_response leaving the LLM's confidence in place
override_response_llm_confidence(llm_response, selected_category) ==
    [category |-> selected_category,
     total_amount |-> llm_response.total_amount,
     currency |-> llm_response.currency,
     confidence |-> llm_response.confidence,
     cost |-> llm_response.cost,
     comments |-> Some(override_comment(llm_response)),
     timestamp |-> "override"]

\* the ExpenseCategorizationResponse built on a category override
override_response(llm_response, selected_category) ==
    [category |-> selected_category,
     total_amount |-> llm_response.total_amount,
     currency |-> llm_response.currency,
     confidence |-> 100,
     cost |-> llm_response.cost,
     comments |-> Some(override_comment(llm_response)),
     timestamp |-> "override"]

\* the response persist_with_category persists
selected_response(llm_response, selected_category) ==
    IF selected_category = llm_response.category
    THEN llm_response
    ELSE override_response(llm_response, selected_category)

\* new_expense storing the call's cost in place of the expense's amount
new_expense_cost_as_amount(response, description, category, telegram_user_id) ==
    Expense(response.cost, response.currency, Some(description),
            Some(category), telegram_user_id)

\* Expense(amount=response.total_amount, ...) of _persist_expense
new_expense(response, description, category, telegram_user_id) ==
    Expense(response.total_amount, response.currency, Some(description),
            Some(category), telegram_user_id)

\* _persist_expense: get-or-create the category, then add the expense.
\* Returns the objects, the repositories afterwards and the calls made.
persist_expense(cats, exps, nid, response, description, telegram_user_id) ==
    LET name == category_name(response)
        got == category_repo_get(cats, name)
        found == got.raised = "None"
        category == IF found THEN got.value[1] ELSE ExpenseCategory(name)
        added == IF found THEN [raised |-> "None", categories |-> cats]
                 ELSE category_repo_add(cats, category)
        \* the category object once the repository has stored it
        saved == IF found \/ added.raised # "None" THEN category
                 ELSE added.categories[name]
        stored == expense_repo_add(
                      exps, nid,
                      new_expense(response, description, saved,
                                  telegram_user_id))
        lookup == <<"category_repo.get">> \o
                  (IF found THEN <<>> ELSE <<"category_repo.add">>)
    IN  IF added.raised # "None"
        THEN [raised |-> added.raised, category |-> None, expense |-> None,
              categories |-> cats, expenses |-> exps, next_id |-> nid,
              trace |-> lookup]
        ELSE [raised |-> "None", category |-> Some(saved),
              expense |-> Some(stored.expense),
              categories |-> added.categories,
              expenses |-> stored.expenses, next_id |-> stored.next_id,
              trace |-> lookup \o <<"expense_repo.add">>]

\* the caller is between two operations
Idle == call = NoCall

\* room left under the bound for one more expense
Room == next_id <= MaxExpenses

\* ClassificationService.classify(expense_description, persist,
\* telegram_user_id), with the assistant answering `completion`
classify_step(expense_description, persist, telegram_user_id, completion) ==
    /\ Idle
    /\ call' = [op |-> "classify",
                expense_description |-> expense_description,
                persist |-> persist,
                telegram_user_id |-> telegram_user_id,
                completion |-> completion]
    /\ UNCHANGED service
    /\ IF is_blank(expense_description)
       THEN /\ raised' = "ValueError"
            /\ result' = None
            /\ trace' = <<>>
            /\ UNCHANGED repos
       ELSE IF completion = None
       THEN /\ raised' = "UpstreamError"
            /\ result' = None
            /\ trace' = <<"assistant.completion">>
            /\ UNCHANGED repos
       ELSE IF ~persist
       THEN /\ raised' = "None"
            /\ result' = Some(ClassificationResult(completion[1]))
            /\ trace' = <<"assistant.completion">>
            /\ UNCHANGED repos
       ELSE IF ~ensure_repos(service)
       THEN /\ raised' = "RuntimeError"
            /\ result' = None
            /\ trace' = <<"assistant.completion">>
            /\ UNCHANGED repos
       ELSE LET p == persist_expense(categories, expenses, next_id,
                                     completion[1],
                                     expense_description, telegram_user_id)
            IN  /\ Room
                /\ raised' = p.raised
                /\ result' =
                     IF p.raised # "None" THEN None
                     ELSE Some([ClassificationResult(completion[1]) EXCEPT
                                  !.category = p.category,
                                  !.expense = p.expense,
                                  !.is_persisted = TRUE])
                /\ trace' = <<"assistant.completion">> \o p.trace
                /\ categories' = p.categories
                /\ expenses' = p.expenses
                /\ next_id' = p.next_id

\* classify called on its own: nothing outside the service changes
classify(expense_description, persist, telegram_user_id, completion) ==
    /\ classify_step(expense_description, persist, telegram_user_id, completion)
    /\ UNCHANGED others

\* ClassificationService.persist_with_category(expense_description,
\* llm_response, selected_category, telegram_user_id)
persist_with_category_step(expense_description, llm_response, selected_category, telegram_user_id) ==
    /\ Idle
    /\ call' = [op |-> "persist_with_category",
                expense_description |-> expense_description,
                llm_response |-> llm_response,
                selected_category |-> selected_category,
                telegram_user_id |-> telegram_user_id]
    /\ UNCHANGED service
    /\ IF ~ensure_repos(service)
       THEN /\ raised' = "RuntimeError"
            /\ result' = None
            /\ trace' = <<>>
            /\ UNCHANGED repos
       ELSE LET response == selected_response(llm_response,
                                              selected_category)
                p == persist_expense(categories, expenses, next_id,
                                     response,
                                     expense_description, telegram_user_id)
            IN  /\ Room
                /\ raised' = p.raised
                /\ result' =
                     IF p.raised # "None" THEN None
                     ELSE Some([response |-> response,
                                expense |-> p.expense,
                                category |-> p.category,
                                is_persisted |-> TRUE])
                /\ trace' = p.trace
                /\ categories' = p.categories
                /\ expenses' = p.expenses
                /\ next_id' = p.next_id

\* persist_with_category called on its own: nothing outside the service
\* changes
persist_with_category(expense_description, llm_response, selected_category, telegram_user_id) ==
    /\ persist_with_category_step(expense_description, llm_response, selected_category, telegram_user_id)
    /\ UNCHANGED others

--------------------------------------------------------------------------
(* Direct use of the repositories by a caller *)

\* names a caller passes to the category repository
RepositoryNames == {strip(n) : n \in CategoryNames}

\* ids a caller passes to the expense repository
ExpenseIds == 1..MaxExpenses

\* the category objects a caller can hold: None or a stored one
HeldCategories == {None} \cup {Some(categories[n]) : n \in DOMAIN categories}

category_add(name) ==
    /\ Idle
    /\ LET r == InMemoryCategoryRepository_add(
                    categories, ExpenseCategory(name))
       IN  /\ call' = [op |-> "category_repo.add", name |-> name]
           /\ raised' = r.raised
           /\ result' = None
           /\ trace' = <<>>
           /\ categories' = r.categories
    /\ UNCHANGED <<service, others, expenses, next_id>>

category_update(name) ==
    /\ Idle
    /\ LET r == InMemoryCategoryRepository_update(
                    categories, ExpenseCategory(name))
       IN  /\ call' = [op |-> "category_repo.update", name |-> name]
           /\ raised' = r.raised
           /\ result' = None
           /\ trace' = <<>>
           /\ categories' = r.categories
    /\ UNCHANGED <<service, others, expenses, next_id>>

category_get(name) ==
    /\ Idle
    /\ LET r == InMemoryCategoryRepository_get(categories, name)
       IN  /\ call' = [op |-> "category_repo.get", name |-> name]
           /\ raised' = r.raised
           /\ result' = r.value
           /\ trace' = <<>>
    /\ UNCHANGED <<service, others, repos>>

category_delete(name) ==
    /\ Idle
    /\ LET r == InMemoryCategoryRepository_delete(categories, name)
       IN  /\ call' = [op |-> "category_repo.delete", name |-> name]
           /\ raised' = r.raised
           /\ result' = None
           /\ trace' = <<>>
           /\ categories' = r.categories
    /\ UNCHANGED <<service, others, expenses, next_id>>

expense_add(amount, category) ==
    /\ Idle
    /\ next_id <= MaxExpenses
    /\ LET r == InMemoryExpenseRepository_add(
                    expenses, next_id,
                    Expense(amount, "EUR", None, category, None))
       IN  /\ call' = [op |-> "expense_repo.add", expense |-> r.expense]
           /\ raised' = r.raised
           /\ result' = None
           /\ trace' = <<>>
           /\ expenses' = r.expenses
           /\ next_id' = r.next_id
    /\ UNCHANGED <<service, others, categories>>

expense_get(expense_id) ==
    /\ Idle
    /\ LET r == InMemoryExpenseRepository_get(expenses, expense_id)
       IN  /\ call' = [op |-> "expense_repo.get", expense_id |-> expense_id]
           /\ raised' = r.raised
           /\ result' = r.value
           /\ trace' = <<>>
    /\ UNCHANGED <<service, others, repos>>

expense_update(expense_id, amount, category) ==
    /\ Idle
    /\ LET e == [Expense(amount, "EUR", None, category, None)
                   EXCEPT !.id = Some(expense_id)]
           r == InMemoryExpenseRepository_update(expenses, e)
       IN  /\ call' = [op |-> "expense_repo.update", expense |-> e]
           /\ raised' = r.raised
           /\ result' = None
           /\ trace' = <<>>
           /\ expenses' = r.expenses
    /\ UNCHANGED <<service, others, categories, next_id>>

expense_delete(expense_id) ==
    /\ Idle
    /\ LET r == InMemoryExpenseRepository_delete(expenses, expense_id)
       IN  /\ call' = [op |-> "expense_repo.delete",
                       expense_id |-> expense_id]
           /\ raised' = r.raised
           /\ result' = None
           /\ trace' = <<>>
           /\ expenses' = r.expenses
    /\ UNCHANGED <<service, others, categories, next_id>>

\* the caller has taken the outcome of the operation and goes on
Return ==
    /\ ~Idle
    /\ call' = NoCall
    /\ raised' = "None"
    /\ result' = None
    /\ trace' = <<>>
    /\ UNCHANGED <<service, others, repos>>

--------------------------------------------------------------------------
(* Specification *)

\* ClassificationService(assistant, category_repo, expense_repo): either
\* repository may be left out (None); the repositories start empty
Init ==
    /\ service \in [category_repo : BOOLEAN, expense_repo : BOOLEAN]
    /\ categories = <<>>
    /\ expenses = <<>>
    /\ next_id = 1
    /\ call = NoCall
    /\ raised = "None"
    /\ result = None
    /\ trace = <<>>
    /\ text = <<>>
    /\ NoRequest
    /\ AssistantAtRest
    /\ session = None

Next ==
    \/ \E q \in Requests, p \in BOOLEAN, c \in LLMOutcomes :
          classify(q[1], p, q[2], c)
    \/ \E q \in OverrideRequests, r \in LLMResponses,
          s \in CategoryNames : persist_with_category(q[1], r, s, q[2])
    \/ \E n \in RepositoryNames : category_add(n)
    \/ \E n \in RepositoryNames : category_update(n)
    \/ \E n \in RepositoryNames : category_get(n)
    \/ \E n \in RepositoryNames : category_delete(n)
    \/ \E c \in HeldCategories : expense_add(100, c)
    \/ \E i \in ExpenseIds : expense_get(i)
    \/ \E i \in ExpenseIds, c \in HeldCategories : expense_update(i, 100, c)
    \/ \E i \in ExpenseIds : expense_delete(i)
    \/ Return

Spec == Init /\ [][Next]_vars

--------------------------------------------------------------------------
(* Vocabulary of the properties *)

\* the last operation was a call of the service
IsClassify == call.op = "classify"
IsPersistWithCategory == call.op = "persist_with_category"

\* both repositories were handed to the service
Configured == service.category_repo /\ service.expense_repo

\* a description made of whitespace only (the empty one included)
BlankText(d) == \A i \in DOMAIN d : d[i] \in Whitespace

\* the last operation returned a result with a persisted expense
Persisted ==
    /\ IsClassify \/ IsPersistWithCategory
    /\ raised = "None"
    /\ result # None
    /\ result[1].is_persisted

\* the response the last persisting call worked on, as the caller gave it
GivenResponse ==
    IF IsClassify THEN call.completion[1] ELSE call.llm_response

--------------------------------------------------------------------------
(* C1 *)

\* C1: once classify(description, persist=True) has returned with both
\* repositories configured, expense_repo.get(result.expense.id) returns an
\* expense with the LLM response's total_amount and currency and with the
\* given description, whatever adds, deletes and classifications came before.
C1_RoundTrip ==
    (IsClassify /\ call.persist /\ Configured /\ raised = "None") =>
        /\ result # None
        /\ result[1].expense # None
        /\ result[1].expense[1].id # None
        /\ LET got == InMemoryExpenseRepository_get(
                          expenses, result[1].expense[1].id[1])
           IN  /\ got.raised = "None"
               /\ got.value # None
               /\ got.value[1].amount = call.completion[1].total_amount
               /\ got.value[1].currency = call.completion[1].currency
               /\ got.value[1].description = Some(call.expense_description)

\* a persisted classification whose expense got id 2 after the expense
\* with id 1 was deleted
C1_Witness ==
    /\ IsClassify /\ call.persist /\ Configured /\ raised = "None"
    /\ result # None
    /\ result[1].expense # None
    /\ result[1].expense[1].id = Some(2)
    /\ DOMAIN expenses = {2}
    /\ expenses[2].amount = 1200

--------------------------------------------------------------------------
(* C2 *)

\* the last operation ran the get-or-create path of _persist_expense
RanGetOrCreate ==
    /\ IsClassify \/ IsPersistWithCategory
    /\ \E i \in DOMAIN trace : trace[i] = "category_repo.get"

\* number of category_repo.add calls the last operation made
AddCalls == Cardinality({i \in DOMAIN trace : trace[i] = "category_repo.add"})

\* the name the last get-or-create looked up
AskedName == strip(result[1].response.category)

\* C2: every get-or-create leaves the category stored once under its name
\* and hands that stored category to the new expense; when the name was
\* stored before the call (as a preceding get-or-create with the same name
\* leaves it) the call makes no add and leaves the category repository as it
\* was, otherwise it makes exactly one add.  So two runs in sequence with one
\* name create one category, and both expenses reference it.
C2_GetOrCreateOnce ==
    [][RanGetOrCreate' =>
        /\ raised' = "None"
        /\ result' # None
        /\ LET n == AskedName'
           IN  /\ n \in DOMAIN categories'
               /\ result'[1].category = Some(categories'[n])
               /\ result'[1].expense # None
               /\ result'[1].expense[1].category = Some(categories'[n])
               /\ expenses'[next_id].category = Some(categories'[n])
               /\ IF n \in DOMAIN categories
                  THEN AddCalls' = 0 /\ categories' = categories
                  ELSE /\ AddCalls' = 1
                       /\ DOMAIN categories' = DOMAIN categories \cup {n}]_vars

\* the second of two persisted classifications of one category: no add
\* was made, one category is stored, both stored expenses reference it
C2_Witness ==
    /\ RanGetOrCreate /\ raised = "None" /\ AddCalls = 0
    /\ next_id = 3
    /\ DOMAIN expenses = {1, 2}
    /\ Cardinality(DOMAIN categories) = 1
    /\ \A i \in DOMAIN expenses :
          /\ expenses[i].description # None
          /\ expenses[i].category = result[1].category

--------------------------------------------------------------------------
(* C3 *)

OVERRIDE == <<"o", "v", "e", "r", "r", "i", "d", "e">>

\* what C3 states of a persist_with_category call, the persisted expense's
\* category being named `stored_name`
C3_Statement(stored_name) ==
    (IsPersistWithCategory /\ Configured) =>
        /\ raised = "None"
        /\ result # None
        /\ result[1].is_persisted
        /\ result[1].expense # None
        /\ LET llm == call.llm_response
               r == result[1].response
               e == result[1].expense[1]
           IN  /\ e.id # None
               /\ e.id[1] \in DOMAIN expenses
               /\ expenses[e.id[1]] = e
               /\ e.amount = llm.total_amount
               /\ e.currency = llm.currency
               /\ IF call.selected_category # llm.category
                  THEN /\ r.category = call.selected_category
                       /\ e.category # None
                       /\ e.category[1].name = stored_name
                       /\ r.confidence = 100
                       /\ r.comments # None
                       /\ contains(r.comments[1], OVERRIDE)
                       /\ r.total_amount = llm.total_amount
                       /\ r.currency = llm.currency
                       /\ r.cost = llm.cost
                  ELSE r = llm

\* C3 as stated: the persisted expense carries category = selected_category
C3_Original == C3_Statement(call.selected_category)

\* C3 amended: on an override the returned response carries the selected
\* category, confidence 1.0, a comment containing "override" and the LLM
\* response's amount, currency and cost; the persisted expense carries the
\* category named by the selected category with surrounding whitespace
\* trimmed; on an equal selection the LLM response is persisted unchanged;
\* in both cases the result has is_persisted = True.
C3_Override == C3_Statement(strip(call.selected_category))

\* an override by a selected category that has surrounding whitespace
C3_Witness ==
    /\ IsPersistWithCategory /\ Configured /\ raised = "None"
    /\ call.selected_category # call.llm_response.category
    /\ strip(call.selected_category) # call.selected_category
    /\ call.llm_response.comments # None
    /\ result[1].response.confidence = 100

--------------------------------------------------------------------------
(* C4 *)

\* what C4 states of classify(description, persist=False) for the
\* descriptions in `covered`
C4_Statement(covered) ==
    (IsClassify' /\ ~call'.persist /\ call'.completion # None
        /\ call'.expense_description \in covered) =>
            /\ raised' = "None"
            /\ result' = Some([response |-> call'.completion[1],
                               expense |-> None, category |-> None,
                               is_persisted |-> FALSE])
            /\ categories' = categories
            /\ expenses' = expenses
            /\ next_id' = next_id

\* C4 as stated: for every description
C4_Original == [][C4_Statement(Descriptions)]_vars

\* C4 amended: for every non-blank description and LLM response,
\* classify(description, persist=False) returns a result with
\* is_persisted = False, expense = None and category = None and leaves both
\* repositories unchanged, also when both are configured.
C4_NoPersist ==
    [][C4_Statement({d \in Descriptions : ~BlankText(d)})]_vars

\* an unpersisted classification by a service that has both repositories,
\* which hold a category and an expense
C4_Witness ==
    /\ IsClassify /\ ~call.persist /\ Configured /\ raised = "None"
    /\ result # None
    /\ ~result[1].is_persisted
    /\ DOMAIN categories # {}
    /\ DOMAIN expenses # {}

--------------------------------------------------------------------------
(* C5 *)

\* C5: every stored expense whose category is set refers to a category
\* that is stored in the category repository.
C5_ReferentialIntegrity ==
    \A i \in DOMAIN expenses :
        expenses[i].category # None =>
            /\ expenses[i].category[1].name \in DOMAIN categories
            /\ categories[expenses[i].category[1].name]
                 = expenses[i].category[1]

--------------------------------------------------------------------------
(* C6 *)

IsCategoryLookup ==
    call.op = "category_repo.get" \/ call.op = "category_repo.delete"
IsExpenseLookup ==
    call.op = "expense_repo.get" \/ call.op = "expense_repo.delete"

\* the last operation stored a category / an expense
AddedCategory(n) ==
    \/ call.op = "category_repo.add" /\ call.name = n
    \/ RanGetOrCreate /\ AddCalls = 1 /\ raised = "None" /\ AskedName = n
AddedExpense(i) ==
    \/ call.op = "expense_repo.add" /\ call.expense.id = Some(i)
    \/ RanGetOrCreate /\ raised = "None" /\ result[1].expense[1].id = Some(i)

\* one step of C6
C6_Step ==
    /\ IsCategoryLookup' /\ call'.name \notin DOMAIN categories =>
          /\ raised' = "CategoryNotFoundError"
          /\ result' = None
          /\ categories' = categories
          /\ expenses' = expenses
    /\ IsExpenseLookup' /\ call'.expense_id \notin DOMAIN expenses =>
          /\ raised' = "ExpenseNotFoundError"
          /\ result' = None
          /\ categories' = categories
          /\ expenses' = expenses
    /\ call'.op = "category_repo.delete" /\ raised' = "None" =>
          /\ call'.name \in DOMAIN categories
          /\ DOMAIN categories' = DOMAIN categories \ {call'.name}
    /\ call'.op = "expense_repo.delete" /\ raised' = "None" =>
          /\ call'.expense_id \in DOMAIN expenses
          /\ DOMAIN expenses' = DOMAIN expenses \ {call'.expense_id}
    /\ \A n \in DOMAIN categories' \ DOMAIN categories : AddedCategory(n)'
    /\ \A i \in DOMAIN expenses' \ DOMAIN expenses : AddedExpense(i)'

\* C6: get(k) and delete(k) of a key that is not stored raise the not-found
\* error of the repository's own kind and leave what is stored unchanged; a
\* successful delete(k) removes k, and a key that is not stored becomes
\* stored again only by an add, so get(k) and delete(k) keep raising
\* not-found after a delete until k is added again.
C6_NotFound == [][C6_Step]_vars

\* delete of an expense id that was stored once and deleted since
C6_Witness ==
    /\ call.op = "expense_repo.delete"
    /\ raised = "ExpenseNotFoundError"
    /\ call.expense_id < next_id
    /\ DOMAIN categories # {}

--------------------------------------------------------------------------
(* C7 *)

\* a persisting call of a service that lacks a repository
PersistingCall ==
    \/ IsClassify /\ call.persist
    \/ IsPersistWithCategory

\* the call got past the checks classify makes before it persists
ReachedPersistence ==
    IsClassify =>
        /\ ~BlankText(call.expense_description)
        /\ call.completion # None

ConfigurationError ==
    /\ raised' = "RuntimeError"
    /\ result' = None
    /\ categories' = categories
    /\ expenses' = expenses
    /\ next_id' = next_id

--------------------------------------------------------------------------
(* C8 *)

\* C8: classify with an empty or whitespace-only description raises
\* ValueError for either value of persist, without a completion call and
\* without a write to a repository.
C8_BlankRejected ==
    [][(IsClassify' /\ BlankText(call'.expense_description)) =>
        /\ raised' = "ValueError"
        /\ result' = None
        /\ trace' = <<>>
        /\ categories' = categories
        /\ expenses' = expenses
        /\ next_id' = next_id]_vars

\* a whitespace-only description, persist=True, both repositories
\* configured and an assistant that would have answered
C8_Witness ==
    /\ IsClassify /\ call.persist /\ Configured
    /\ call.expense_description = <<" ">>
    /\ call.completion # None
    /\ raised = "ValueError"

--------------------------------------------------------------------------
(* C9 *)

\* the category name as the caller's response spells it
RawName == result[1].response.category

\* what C9 states of a persisting call, `norm` being the normalization
\* under which names count as the same
C9_Statement(norm(_)) ==
    (RanGetOrCreate' /\ raised' = "None") =>
        /\ result'[1].category # None
        /\ norm(result'[1].category[1].name) = norm(RawName')
        /\ \A k \in DOMAIN categories :
              norm(k) = norm(RawName') =>
                  /\ categories' = categories
                  /\ result'[1].category = Some(categories[k])

case_and_whitespace(s) == lower(strip(s))

\* C9 as stated: names that differ in letter case or surrounding
\* whitespace resolve to one category row
C9_Original == [][C9_Statement(case_and_whitespace)]_vars

\* C9 amended: the category is looked up or created under the returned
\* name with surrounding whitespace trimmed and its letter case kept: names
\* that differ only in leading or trailing whitespace resolve to the same
\* single row, and no second row is created for the variant spelling.
C9_TrimmedLookup == [][C9_Statement(strip)]_vars

\* a persisted classification under " f" that found the row "f"
C9_Witness ==
    /\ RanGetOrCreate /\ raised = "None" /\ AddCalls = 0
    /\ RawName = <<" ", "f">>
    /\ result[1].category = Some(categories[<<"f">>])
    /\ DOMAIN categories = {<<"f">>}

--------------------------------------------------------------------------
(* C10 *)

\* persist_with_category returned on a selection that differs from the
\* LLM's category
Overridden ==
    /\ IsPersistWithCategory /\ raised = "None" /\ result # None
    /\ call.selected_category # call.llm_response.category

OriginalComments ==
    IF call.llm_response.comments = None THEN <<>>
    ELSE call.llm_response.comments[1]

OverrideNote == USER_OVERRIDE_FROM \o call.llm_response.category \o <<"'">>

\* C10 as stated: the comments start with the original comments and end
\* with the override note
C10_Original ==
    Overridden =>
        /\ result[1].response.comments # None
        /\ startswith(result[1].response.comments[1], OriginalComments)
        /\ endswith(result[1].response.comments[1], OverrideNote)
        /\ call.llm_response.comments # None =>
              Len(result[1].response.comments[1]) > Len(OverrideNote)

\* C10 amended: on an override the comments of the returned response are
\* the override note "User override from '<the LLM's category>'" alone; the
\* LLM response's own comments are not carried over.
C10_NoteReplacesComments ==
    Overridden => result[1].response.comments = Some(OverrideNote)

\* an override of a response that came with comments
C10_Witness ==
    /\ Overridden
    /\ call.llm_response.comments = Some(<<"o", "k">>)
    /\ ~contains(result[1].response.comments[1], <<"o", "k">>)

--------------------------------------------------------------------------
(* services/preprocessing.py: InputPreprocessor *)

MIN_LENGTH == 3
MAX_LENGTH == 500

\* a character outside ASCII is written as the name of its code point
EURO_SIGN == "U+20AC"
POUND_SIGN == "U+00A3"
YEN_SIGN == "U+00A5"

\* SUSPICIOUS_PATTERNS: three literal patterns, searched with re.IGNORECASE
SUSPICIOUS_PATTERNS ==
    << <<"<", "s", "c", "r", "i", "p", "t">>,
       <<"j", "a", "v", "a", "s", "c", "r", "i", "p", "t", ":">>,
       <<"o", "n", "e", "r", "r", "o", "r", "=">> >>

\* the characters \d matches in the model's alphabet
Digits == {"0", "1", "2", "3", "4", "5", "6", "7", "8", "9"}

\* PreprocessingResult(cleaned_text, is_valid, validation_errors, warnings)
PreprocessingResult(cleaned_text, is_valid, validation_errors, warnings) ==
    [cleaned_text |-> cleaned_text, is_valid |-> is_valid,
     validation_errors |-> validation_errors, warnings |-> warnings]

\* re.sub(r"\s+", " ", s): every run of whitespace becomes one space
collapse_whitespace(s) ==
    LET starts_run(i) ==
            \/ s[i] \notin Whitespace
            \/ i = 1
            \/ s[i - 1] \notin Whitespace
        kept == SelectSeq([i \in 1..Len(s) |-> i], starts_run)
    IN  [k \in DOMAIN kept |->
            IF s[kept[k]] \in Whitespace THEN " " ELSE s[kept[k]]]

\* text.replace(symbol, by) for a one-character symbol
RECURSIVE replace(_, _, _)
replace(s, symbol, by) ==
    IF \A i \in DOMAIN s : s[i] # symbol THEN s
    ELSE LET first == CHOOSE i \in DOMAIN s :
                          /\ s[i] = symbol
                          /\ \A j \in 1..(i - 1) : s[j] # symbol
         IN  SubSeq(s, 1, first - 1) \o by
             \o replace(SubSeq(s, first + 1, Len(s)), symbol, by)

\* _normalize_currency: symbols to " CODE ", whitespace collapsed, stripped
normalize_currency(s) ==
    LET eur == replace(s, EURO_SIGN, <<" ", "E", "U", "R", " ">>)
        gbp == replace(eur, POUND_SIGN, <<" ", "G", "B", "P", " ">>)
        jpy == replace(gbp, YEN_SIGN, <<" ", "J", "P", "Y", " ">>)
    IN  strip(collapse_whitespace(jpy))

\* length_errors that never reports a text as too long
length_errors_short_only(stripped) ==
    IF Len(stripped) < MIN_LENGTH
    THEN <<"Input too short (min " \o ToString(MIN_LENGTH) \o " characters)">>
    ELSE <<>>

\* the errors of the two length tests on the stripped text
length_errors(stripped) ==
    (IF Len(stripped) < MIN_LENGTH
     THEN <<"Input too short (min " \o ToString(MIN_LENGTH)
            \o " characters)">>
     ELSE <<>>)
    \o
    (IF Len(stripped) > MAX_LENGTH
     THEN <<"Input too long (max " \o ToString(MAX_LENGTH)
            \o " characters)">>
     ELSE <<>>)

\* one error for every suspicious pattern found, whatever the letter case
suspicious_errors(stripped) ==
    LET hit(i) == contains(lower(stripped), SUSPICIOUS_PATTERNS[i])
        found == SelectSeq(<<1, 2, 3>>, hit)
    IN  [i \in DOMAIN found |-> "Suspicious input detected"]

\* missing_amount_warnings that never warns
missing_amount_warnings_never(cleaned) == <<>>

\* the warning of a cleaned text without any digit
missing_amount_warnings(cleaned) ==
    IF ~(\E i \in DOMAIN cleaned : cleaned[i] \in Digits)
    THEN <<"No amount detected - expense amount may be missing">>
    ELSE <<>>

\* InputPreprocessor.preprocess(text)
preprocess(t) ==
    IF t = <<>> \/ strip(t) = <<>>
    THEN PreprocessingResult(<<>>, FALSE, <<"Input cannot be empty">>, <<>>)
    ELSE LET stripped == strip(t)
             errors == length_errors(stripped) \o suspicious_errors(stripped)
             cleaned == normalize_currency(collapse_whitespace(stripped))
             warnings == missing_amount_warnings(cleaned)
         IN  PreprocessingResult(cleaned, Len(errors) = 0, errors, warnings)

--------------------------------------------------------------------------
(* Specification of the preprocessor alone *)

\* every text of up to MaxTextLen characters over TextAlphabet is an input
MaxTextLen == 4

TextAlphabet == {"a", " ", "5"}

ShortTexts == UNION {[1..n -> TextAlphabet] : n \in 0..MaxTextLen}

\* n times the character c
Repeat(c, n) == [i \in 1..n |-> c]

\* texts around the maximum length, bare and with surrounding whitespace
LongTexts ==
    { pre \o Repeat("a", n) \o post :
        n \in {MAX_LENGTH - 1, MAX_LENGTH, MAX_LENGTH + 1},
        pre \in {<<>>, <<" ">>}, post \in {<<>>, <<"\t", " ">>} }

\* texts with a currency symbol, inner whitespace runs and markup
MarkedTexts ==
    { <<"a", " ", "\t", "5", EURO_SIGN>>,
      <<"a", "a", YEN_SIGN, "a">>,
      <<"\t", "a", "\t">>,
      <<"<", "S", "c", "r", "i", "p", "t">>,
      <<"5", " ", "o", "n", "e", "r", "r", "o", "r", "=">>,
      <<"<", "s", "c", "r", "i", "p", "t", " ",
        "o", "n", "e", "r", "r", "o", "r", "=">> }

Texts == ShortTexts \cup LongTexts \cup MarkedTexts

\* preprocessor.preprocess(text) on the text at hand
InputPreprocessor_preprocess ==
    /\ Idle
    /\ call' = [op |-> "preprocess", text |-> text]
    /\ raised' = "None"
    /\ result' = Some(preprocess(text))
    /\ trace' = <<>>
    /\ UNCHANGED <<service, repos, others>>

PreprocessInit ==
    /\ service = [category_repo |-> FALSE, expense_repo |-> FALSE]
    /\ categories = <<>>
    /\ expenses = <<>>
    /\ next_id = 1
    /\ call = NoCall
    /\ raised = "None"
    /\ result = None
    /\ trace = <<>>
    /\ text \in Texts
    /\ NoRequest
    /\ AssistantAtRest
    /\ session = None

PreprocessNext ==
    \/ InputPreprocessor_preprocess
    \/ Return

PreprocessSpec == PreprocessInit /\ [][PreprocessNext]_vars

--------------------------------------------------------------------------
(* C19, C20 *)

\* preprocess has just returned
IsPreprocess == call.op = "preprocess"

\* the text without its surrounding whitespace
Trimmed(t) == strip(t)

TooShort == "Input too short (min 3 characters)"
TooLong == "Input too long (max 500 characters)"
CannotBeEmpty == "Input cannot be empty"
NoAmountDetected == "No amount detected - expense amount may be missing"

\* e is one of the errors of the sequence errs
Among(e, errs) == \E i \in DOMAIN errs : errs[i] = e

\* C19 as stated: a text whose length, raw or trimmed, is below 3 or above
\* 500 is reported invalid with an error naming it too short or too long.
C19_Original ==
    (IsPreprocess /\ (\/ Len(text) < 3 \/ Len(text) > 500
                      \/ Len(Trimmed(text)) < 3 \/ Len(Trimmed(text)) > 500))
    => /\ ~result[1].is_valid
       /\ \/ Among(TooShort, result[1].validation_errors)
          \/ Among(TooLong, result[1].validation_errors)

\* C19: a text whose length after trimming the surrounding whitespace is
\* below 3 or above 500 is reported invalid; the error is "Input cannot be
\* empty" alone when nothing is left after trimming, the too-short error for
\* one or two characters and the too-long error above 500 characters.
C19_TrimmedLengthRejected ==
    IsPreprocess =>
        LET n == Len(Trimmed(text))
            r == result[1]
        IN  /\ (n = 0) => r.validation_errors = <<CannotBeEmpty>>
            /\ (0 < n /\ n < 3) => Among(TooShort, r.validation_errors)
            /\ (n > 500) => Among(TooLong, r.validation_errors)
            /\ (n < 3 \/ n > 500) => ~r.is_valid

\* a text is refused as too long although whitespace surrounds it
C19_Witness ==
    /\ IsPreprocess
    /\ Len(Trimmed(text)) > 500
    /\ Len(text) > Len(Trimmed(text))
    /\ ~result[1].is_valid
    /\ Among(TooLong, result[1].validation_errors)

\* no character of t is a digit
NoDigit(t) == \A i \in DOMAIN t : t[i] \notin Digits

\* t holds one of the refused patterns, in any letter case
Suspicious(t) ==
    \E i \in DOMAIN SUSPICIOUS_PATTERNS :
        contains(lower(t), SUSPICIOUS_PATTERNS[i])

\* t passes the length and pattern tests
Acceptable(t) ==
    /\ Len(Trimmed(t)) >= 3
    /\ Len(Trimmed(t)) <= 500
    /\ ~Suspicious(t)

\* C20 as stated: every text without a digit is reported valid with a
\* non-empty warnings list.
C20_Original ==
    (IsPreprocess /\ NoDigit(text)) =>
        /\ result[1].is_valid
        /\ result[1].warnings # <<>>

\* C20: every text without a digit that is not blank gets the
\* missing-amount warning, and is valid exactly when it passes the length
\* and pattern tests; validity depends on the validation errors only, and
\* the warning is emitted only when the cleaned text holds no digit.
C20_MissingAmountWarning ==
    IsPreprocess =>
        LET r == result[1]
        IN  /\ (NoDigit(text) /\ Trimmed(text) # <<>>) =>
                   /\ r.warnings = <<NoAmountDetected>>
                   /\ r.is_valid <=> Acceptable(text)
            /\ r.is_valid <=> (r.validation_errors = <<>>)
            /\ r.warnings # <<>> => NoDigit(r.cleaned_text)

\* a text without a digit was accepted with the warning
C20_Witness ==
    /\ IsPreprocess
    /\ NoDigit(text)
    /\ result[1].is_valid
    /\ result[1].warnings = <<NoAmountDetected>>

--------------------------------------------------------------------------
(* llms/openai.py: OpenAIAssistant *)

\* models_cost[model]: [input, cached input, output] prices per 1M tokens,
\* in thousandths of a dollar
models_cost == (DEFAULT_MODEL :> <<100, 25, 400>>)

\* calculate_cost, in 1e-9 dollars; 0 for a model without prices
calculate_cost(asst, prompt_tokens, completion_tokens) ==
    IF asst.model \notin DOMAIN models_cost THEN 0
    ELSE prompt_tokens * models_cost[asst.model][1]
         + completion_tokens * models_cost[asst.model][3]

\* "tools" is part of the request only without structured output
sent_tools(asst) == asst.tools /\ ~asst.structured_output

\* the keyword arguments of the first client.chat.completions.create call;
\* response_format is removed again before the call, so it is never sent
create_params(asst, msgs) ==
    [model |-> asst.model, messages |-> msgs, max_tokens |-> TRUE,
     tools |-> sent_tools(asst)]

\* the keyword arguments of the call after the tools ran: model, messages
final_params(asst, msgs) ==
    [model |-> asst.model, messages |-> msgs, max_tokens |-> FALSE,
     tools |-> FALSE]

\* content.find(c) and content.rfind(c): 0-based, -1 when c is absent
find(s, c) ==
    IF \A i \in DOMAIN s : s[i] # c THEN -1
    ELSE (CHOOSE i \in DOMAIN s :
             s[i] = c /\ \A j \in 1..(i - 1) : s[j] # c) - 1

rfind(s, c) ==
    IF \A i \in DOMAIN s : s[i] # c THEN -1
    ELSE (CHOOSE i \in DOMAIN s :
             s[i] = c /\ \A j \in (i + 1)..Len(s) : s[j] # c) - 1

\* The replies are written over a token alphabet: "{" and "}" are the
\* braces, "v" is a complete member list of a classification, "K" is a key
\* with its colon (an object follows as its value), "t" is prose.
\* A JSON object is "{" [ "v" | "K" object ] "}".
RECURSIVE is_json_object(_)
is_json_object(s) ==
    /\ Len(s) >= 2
    /\ s[1] = "{"
    /\ s[Len(s)] = "}"
    /\ LET inner == SubSeq(s, 2, Len(s) - 1)
       IN  \/ inner = <<>>
           \/ inner = <<"v">>
           \/ /\ Len(inner) >= 3
              /\ inner[1] = "K"
              /\ is_json_object(Tail(inner))

\* the member list "v" as the provider spells it
ProviderMembers ==
    [k \in {"Category", "Total Amount", "Currency", "Confidence", "Cost",
            "Comments", "Timestamp"} |->
        CASE k = "Category" -> <<"f">>
          [] k = "Total Amount" -> 550
          [] k = "Currency" -> "USD"
          [] k = "Confidence" -> 95
          [] k = "Cost" -> 1
          [] k = "Comments" -> Some(<<"o", "k">>)
          [] k = "Timestamp" -> "completion"]

\* the dict json.loads returns for a JSON object
RECURSIVE json_value(_)
json_value(s) ==
    LET inner == SubSeq(s, 2, Len(s) - 1)
    IN  IF inner = <<>> THEN <<>>
        ELSE IF inner = <<"v">> THEN ProviderMembers
        ELSE ("K" :> json_value(Tail(inner)))

\* json.loads(s): the dict, or JSONDecodeError
json_loads(s) ==
    IF is_json_object(s)
    THEN [raised |-> "None", value |-> json_value(s)]
    ELSE [raised |-> "JSONDecodeError", value |-> <<>>]

\* field_mapping: the provider's spelling to the schema's field names
field_mapping ==
    [k \in DOMAIN ProviderMembers |->
        CASE k = "Category" -> "category"
          [] k = "Total Amount" -> "total_amount"
          [] k = "Currency" -> "currency"
          [] k = "Confidence" -> "confidence"
          [] k = "Cost" -> "cost"
          [] k = "Comments" -> "comments"
          [] k = "Timestamp" -> "timestamp"]

\* field_mapping.get(key, key.lower())
mapped_key(key) ==
    IF key \in DOMAIN field_mapping THEN field_mapping[key]
    ELSE IF key = "K" THEN "k" ELSE key

\* mapped_data: the parsed dict under the schema's field names
mapped_data(parsed_data) ==
    [mk \in {mapped_key(k) : k \in DOMAIN parsed_data} |->
        parsed_data[CHOOSE k \in DOMAIN parsed_data : mapped_key(k) = mk]]

\* the fields ExpenseCategorizationResponse has no default for
RequiredFields == {"category", "total_amount", "currency", "confidence", "cost"}

\* self.structured_output(**mapped_data): the response, or ValidationError
structured_output(data) ==
    IF ~(RequiredFields \subseteq DOMAIN data)
    THEN [raised |-> "ValidationError", value |-> None]
    ELSE [raised |-> "None",
          value |-> Some(
            [category |-> data["category"],
             total_amount |-> data["total_amount"],
             currency |-> data["currency"],
             confidence |-> data["confidence"],
             cost |-> data["cost"],
             comments |-> IF "comments" \in DOMAIN data
                          THEN data["comments"] ELSE None,
             timestamp |-> IF "timestamp" \in DOMAIN data
                           THEN data["timestamp"] ELSE "import"])]

\* content[start_idx:end_idx], when the reply holds a "{" and a later "}"
extract_json(content) ==
    LET start_idx == find(content, "{")
        end_idx == rfind(content, "}") + 1
    IN  IF start_idx # -1 /\ end_idx > start_idx
        THEN Some(SubSeq(content, start_idx + 1, end_idx))
        ELSE None

\* structured_reply that answers a default classification on bad JSON
structured_reply_defaulting(asst, content) ==
    [raised |-> "None",
     value |-> Some([category |-> <<"f">>, total_amount |-> 0,
                     currency |-> "EUR", confidence |-> 0, cost |-> 0,
                     comments |-> None, timestamp |-> "import"]),
     trace |-> <<>>]

\* the structured-output branch of completion, on the reply's content
\* (None when the reply has no text): the typed response, or an exception
structured_reply(asst, content) ==
    IF content = None
    THEN [raised |-> "AttributeError", value |-> None, trace |-> <<>>]
    ELSE
    LET json_content == extract_json(content[1])
    IN  IF json_content = None
        THEN [raised |-> "ValueError", value |-> None, trace |-> <<>>]
        ELSE
        LET parsed == json_loads(json_content[1])
            loads == <<[op |-> "json.loads", arg |-> json_content[1]]>>
        IN  IF parsed.raised # "None"
            THEN [raised |-> "ValueError", value |-> None, trace |-> loads]
            ELSE
            LET built == structured_output(mapped_data(parsed.value))
            IN  IF built.raised # "None"
                THEN [raised |-> built.raised, value |-> None,
                      trace |-> loads]
                ELSE [raised |-> "None",
                      value |-> Some([built.value[1] EXCEPT !.cost =
                                 calculate_cost(asst, asst.prompt_tokens,
                                                asst.completion_tokens)]),
                      trace |-> loads]

\* the tools completion knows how to run
TOOL_NAMES == {"convert_currency", "format_datetime"}

\* the content of a tool-result message
tool_content(tc) ==
    IF tc.name = "convert_currency" THEN "The result is {result} {to_cur}"
    ELSE "The formatted datetime is: {result}"

\* tool_messages: one tool-result message per call of a known tool
tool_messages(tool_calls) ==
    LET is_known(tc) == tc.name \in TOOL_NAMES
        known == SelectSeq(tool_calls, is_known)
    IN  [i \in DOMAIN known |->
            [role |-> "tool", tool_call_id |-> known[i].id,
             name |-> known[i].name, content |-> tool_content(known[i])]]

\* running a tool raises (arguments that do not parse, an unknown
\* currency, a failed conversion request)
tool_raises(tool_calls) ==
    \E i \in DOMAIN tool_calls :
        tool_calls[i].name \in TOOL_NAMES /\ tool_calls[i].fails

\* the assistant message put in front of the tool results
assistant_message(msg) ==
    [role |-> "assistant", content |-> "None", tool_calls |-> msg.tool_calls]

\* the token counters after a reply
count_tokens(asst, usage) ==
    [asst EXCEPT !.prompt_tokens = usage.prompt_tokens,
                 !.completion_tokens = usage.completion_tokens,
                 !.total_tokens = usage.total_tokens]

\* OpenAIAssistant.completion(messages), the provider answering `first`
\* and, if asked again, `second` (None: the call raises).  Returns the
\* outcome, the assistant and message list afterwards and the calls made.
OpenAIAssistant_completion(asst, msgs, first, second) ==
    LET p1 == [params |-> create_params(asst, msgs), reply |-> first]
        out(r, v, a, m, c, t) ==
            [raised |-> r, value |-> v, assistant |-> a, messages |-> m,
             calls |-> c, trace |-> t]
    IN  IF first = None
        THEN out("ProviderError", None, asst, msgs, <<p1>>, <<>>)
        ELSE
        LET counted == count_tokens(asst, first[1].usage)
            msg == first[1].message
        IN  IF asst.structured_output
            THEN LET r == structured_reply(counted, msg.content)
                 IN  out(r.raised, r.value, counted, msgs, <<p1>>, r.trace)
            ELSE IF msg.tool_calls = <<>>
            THEN out("None", Some(msg), counted, msgs, <<p1>>, <<>>)
            ELSE IF tool_raises(msg.tool_calls)
            THEN out("ToolError", None, counted, msgs, <<p1>>, <<>>)
            ELSE
            LET extended == msgs \o <<assistant_message(msg)>>
                            \o tool_messages(msg.tool_calls)
                p2 == [params |-> final_params(asst, extended),
                       reply |-> second]
            IN  IF second = None
                THEN out("ProviderError", None, counted, extended,
                         <<p1, p2>>, <<>>)
                ELSE out("None", Some(second[1].message), counted,
                         extended, <<p1, p2>>, <<>>)

--------------------------------------------------------------------------
(* Specification of the assistant, alone and under the service *)

\* every reply text of up to MaxReplyLen tokens is an input
MaxReplyLen == 3

\* a first reply carries up to MaxToolCalls tool calls
MaxToolCalls == 2

ReplyAlphabet == {"{", "}", "v", "t"}

ShortReplies == UNION {[1..n -> ReplyAlphabet] : n \in 0..MaxReplyLen}

\* replies with prose around the object, text after it that holds a "}",
\* two objects, and nested objects
MarkedReplies ==
    { <<"t", "{", "v", "}", "t">>,
      <<"{", "v", "}", "t", "}">>,
      <<"{", "v", "}", "{", "v", "}">>,
      <<"{", "K", "{", "v", "}", "}">>,
      <<"t", "{", "K", "{", "}", "}">> }

ReplyContents == ShortReplies \cup MarkedReplies

\* chat_completion.usage of a first and of a second reply
FirstUsage ==
    [prompt_tokens |-> 100, completion_tokens |-> 50, total_tokens |-> 150]
FinalUsage ==
    [prompt_tokens |-> 150, completion_tokens |-> 30, total_tokens |-> 180]

\* a ChatCompletion: choices[0].message and usage
ChatCompletion(content, tool_calls, usage) ==
    [message |-> [content |-> content, tool_calls |-> tool_calls],
     usage |-> usage]

\* the tool calls a reply may carry: the i-th has the id i
ToolCalls(i) ==
    { [id |-> i, name |-> n, fails |-> f] :
        n \in TOOL_NAMES \cup {"get_weather"}, f \in BOOLEAN }

ToolCallLists ==
    { tcs \in UNION {[1..n -> UNION {ToolCalls(i) : i \in 1..MaxToolCalls}] :
                        n \in 0..MaxToolCalls} :
        \A i \in DOMAIN tcs : /\ tcs[i].id = i
                              /\ tcs[i].name \notin TOOL_NAMES
                                     => ~tcs[i].fails }

\* the first replies an assistant may get: text only, unless it sent tools
FirstReplies(asst) ==
    IF sent_tools(asst)
    THEN { ChatCompletion(IF tcs = <<>> THEN Some(<<"t">>) ELSE None,
                          tcs, FirstUsage) : tcs \in ToolCallLists }
    ELSE { ChatCompletion(Some(c), <<>>, FirstUsage) : c \in ReplyContents }
         \cup {ChatCompletion(None, <<>>, FirstUsage)}

FirstOutcomes(asst) == {None} \cup {Some(r) : r \in FirstReplies(asst)}

FinalOutcomes ==
    {None, Some(ChatCompletion(Some(<<"t", "t">>), <<>>, FinalUsage))}

\* the list a caller hands to completion
CallerMessages == << [role |-> "user", content |-> <<"t">>] >>

\* the two messages classify builds (classification.py:69-75)
classify_messages(expense_description) ==
    << [role |-> "system", content |-> "CLASSIFICATION_PROMPT"],
       [role |-> "user",
        content |-> [template |-> "USER_PROMPT",
                     expense_description |-> expense_description]] >>

\* assistant.completion(messages) called directly
completion(first, second) ==
    /\ Idle
    /\ LET c == OpenAIAssistant_completion(assistant, CallerMessages,
                                           first, second)
       IN  /\ call' = [op |-> "completion", messages |-> CallerMessages]
           /\ raised' = c.raised
           /\ result' = c.value
           /\ trace' = c.trace
           /\ assistant' = c.assistant
           /\ messages' = c.messages
           /\ provider_calls' = c.calls
    /\ UNCHANGED <<service, repos, io, session>>

\* service.classify(...) with an OpenAIAssistant configured for structured
\* output, the provider answering `first`
classify_openai(expense_description, persist, telegram_user_id, first) ==
    LET msgs == classify_messages(expense_description)
        c == OpenAIAssistant_completion(assistant, msgs, first, None)
        outcome == IF c.raised = "None" THEN c.value ELSE None
    IN  /\ assistant.structured_output
        /\ classify_step(expense_description, persist, telegram_user_id, outcome)
        /\ IF is_blank(expense_description)
           THEN UNCHANGED <<assistant, messages, provider_calls>>
           ELSE /\ assistant' = c.assistant
                /\ messages' = c.messages
                /\ provider_calls' = c.calls
        /\ UNCHANGED <<io, session>>

\* the caller goes on: its message list and the call log start afresh
AssistantReturn ==
    /\ ~Idle
    /\ call' = NoCall
    /\ raised' = "None"
    /\ result' = None
    /\ trace' = <<>>
    /\ messages' = <<>>
    /\ provider_calls' = <<>>
    /\ UNCHANGED <<service, repos, io, assistant, session>>

AssistantInit ==
    /\ service \in {[category_repo |-> b, expense_repo |-> b] : b \in BOOLEAN}
    /\ categories = <<>>
    /\ expenses = <<>>
    /\ next_id = 1
    /\ call = NoCall
    /\ raised = "None"
    /\ result = None
    /\ trace = <<>>
    /\ text = <<>>
    /\ NoRequest
    /\ assistant \in {OpenAIAssistant(m, s, t) :
                        m \in {DEFAULT_MODEL, "gpt-4o"}, s \in BOOLEAN,
                        t \in BOOLEAN}
    /\ messages = <<>>
    /\ provider_calls = <<>>
    /\ session = None

AssistantNext ==
    \/ \E first \in FirstOutcomes(assistant), second \in FinalOutcomes :
          completion(first, second)
    \/ \E q \in Requests, p \in BOOLEAN, first \in FirstOutcomes(assistant) :
          classify_openai(q[1], p, q[2], first)
    \/ AssistantReturn

AssistantSpec == AssistantInit /\ [][AssistantNext]_vars

--------------------------------------------------------------------------
(* C15, C17, C18 *)

\* the last operation was a direct call of completion
IsCompletion == call.op = "completion"

\* some part of the text s is a JSON object
HasJsonObject(s) ==
    \E i \in DOMAIN s, j \in DOMAIN s :
        i < j /\ is_json_object(SubSeq(s, i, j))

\* the provider raised, or its reply to a structured-output request has no
\* text or no JSON object in its text
BadReply(asst, reply) ==
    \/ reply = None
    \/ /\ asst.structured_output
       /\ \/ reply[1].message.content = None
          \/ ~HasJsonObject(reply[1].message.content[1])

\* C15: when the provider call raises, or the reply to a structured-output
\* request holds no JSON object (none at all, or braces around text that
\* does not parse), completion and classify raise and return nothing, one
\* provider call has been made and the repositories are as they were.
C15_HardFailure ==
    [][(/\ Idle
        /\ IsCompletion' \/ IsClassify'
        /\ provider_calls' # <<>>
        /\ BadReply(assistant, provider_calls'[1].reply))
       => /\ raised' # "None"
          /\ result' = None
          /\ Len(provider_calls') = 1
          /\ UNCHANGED repos]_vars

\* classify(persist=True) on configured, non-empty repositories got a reply
\* with braces that does not parse, and raised
C15_Witness ==
    /\ IsClassify
    /\ call.persist
    /\ Configured
    /\ expenses # <<>>
    /\ Len(provider_calls) = 1
    /\ provider_calls[1].reply # None
    /\ provider_calls[1].reply[1].message.content = Some(<<"{", "t", "}">>)
    /\ raised # "None"

\* the number of characters c in s[a..b]
Count(s, c, a, b) == Cardinality({i \in a..b : s[i] = c})

\* the span from the first "{" of s to the "}" that matches it, if any
FirstBalancedSpan(s) ==
    LET opens == {i \in DOMAIN s : s[i] = "{"}
    IN  IF opens = {} THEN None
        ELSE
        LET start == CHOOSE i \in opens : \A k \in opens : i <= k
            closes == {j \in start..Len(s) :
                          Count(s, "{", start, j) = Count(s, "}", start, j)}
        IN  IF closes = {} THEN None
            ELSE Some(SubSeq(s, start,
                             CHOOSE j \in closes : \A k \in closes : j <= k))

\* C17: with structured output, whenever the reply's text holds a balanced
\* span starting at its first "{", the JSON parser is called and is handed
\* exactly that span.
C17_FirstBalancedSpan ==
    (/\ IsCompletion
     /\ assistant.structured_output
     /\ provider_calls[1].reply # None
     /\ provider_calls[1].reply[1].message.content # None)
    => LET content == provider_calls[1].reply[1].message.content[1]
       IN  /\ FirstBalancedSpan(content) # None => trace # <<>>
           /\ (FirstBalancedSpan(content) # None /\ trace # <<>>) =>
                  Some(trace[1].arg) = FirstBalancedSpan(content)

\* the messages a completion call appended to the caller's list
Appended == SubSeq(messages, Len(call.messages) + 1, Len(messages))

\* C18: without structured output, a first reply with n >= 1 tool calls
\* leads to exactly two provider calls, the second one sent with the
\* caller's messages, one assistant message and one tool-result message per
\* tool call, in order and with the call's id; a first reply without tool
\* calls leads to one provider call, leaves the list as it was and is
\* returned.  With structured output no tool declaration is sent.
C18_ToolRoundTrip ==
    (IsCompletion /\ provider_calls[1].reply # None) =>
        LET msg == provider_calls[1].reply[1].message
            n == Len(msg.tool_calls)
        IN  /\ (~assistant.structured_output /\ n >= 1) =>
                   /\ Len(provider_calls) = 2
                   /\ provider_calls[2].params.messages = messages
                   /\ Len(Appended) = 1 + n
                   /\ Appended[1].role = "assistant"
                   /\ \A i \in 1..n :
                          /\ Appended[1 + i].role = "tool"
                          /\ Appended[1 + i].tool_call_id = msg.tool_calls[i].id
            /\ (~assistant.structured_output /\ n = 0) =>
                   /\ Len(provider_calls) = 1
                   /\ messages = call.messages
                   /\ result = Some(msg)
            /\ assistant.structured_output =>
                   \A i \in DOMAIN provider_calls :
                       ~provider_calls[i].params.tools

--------------------------------------------------------------------------
(* storage/repo.py: the DB repositories and their session *)

\* category rows get ids up to MaxCategories
MaxCategories == 2

\* Session: whether the repository made it itself (_owns_session), and
\* whether a transaction has begun on it that is neither committed nor
\* ended by a close
Session(owns_session) ==
    [owns_session |-> owns_session, in_transaction |-> FALSE]

\* with_session that leaves the "with" block without closing the session
with_session_unclosed(owns_session, events) == events

\* the calls an operation makes on its session: inside "with self.session"
\* (whose exit closes the session) when the repository owns it, directly on
\* the caller's session otherwise
with_session(owns_session, events) ==
    IF owns_session
    THEN <<"session.__enter__">> \o events \o <<"session.close">>
    ELSE events

\* the session after these calls: a statement begins a transaction, and
\* commit, rollback and close end it
session_after(sess, events) ==
    IF events = <<>> THEN sess
    ELSE Some([sess[1] EXCEPT !.in_transaction =
                 events[Len(events)] \notin
                     {"session.commit", "session.rollback", "session.close"}])

\* a repository call: the session calls it makes, then the outcome
repo_call(op, raised_, result_, events) ==
    /\ Idle
    /\ session # None
    /\ call' = op
    /\ raised' = raised_
    /\ result' = result_
    /\ trace' = with_session(session[1].owns_session, events)
    /\ session' = session_after(session, trace')
    /\ UNCHANGED <<service, next_id, io, assistant, messages,
                   provider_calls>>

\* the expenses after a category row is deleted: the ORM empties the
\* category of the expenses that had it
without_category(exps, name) ==
    [i \in DOMAIN exps |->
        IF exps[i].category # None /\ exps[i].category[1].name = name
        THEN [exps[i] EXCEPT !.category = None] ELSE exps[i]]

\* the expenses after a category row is renamed: they show the new name
with_category(exps, category) ==
    [i \in DOMAIN exps |->
        IF exps[i].category # None /\ exps[i].category[1].id = category.id
        THEN [exps[i] EXCEPT !.category = Some(category)] ELSE exps[i]]

DBCategoryRepo_add_call(name) ==
    /\ name \notin DOMAIN categories
    /\ new_row_id(category_ids(categories)) <= MaxCategories
    /\ LET r == DBCategoryRepo_add(categories, ExpenseCategory(name))
       IN  /\ repo_call([op |-> "DBCategoryRepo.add", name |-> name],
                        r.raised, None, <<"session.add", "session.commit">>)
           /\ categories' = r.categories
    /\ UNCHANGED expenses

DBCategoryRepo_update_call(id, name) ==
    LET category == [id |-> Some(id), name |-> name]
        r == DBCategoryRepo_update(categories, category)
    IN  /\ r.raised # "IntegrityError"
        /\ repo_call([op |-> "DBCategoryRepo.update", category |-> category],
                     r.raised, None,
                     IF r.raised = "None"
                     THEN <<"session.get", "session.add", "session.commit">>
                     ELSE <<"session.get">>)
        /\ categories' = r.categories
        /\ expenses' = IF r.raised = "None"
                       THEN with_category(expenses, category) ELSE expenses

DBCategoryRepo_get_call(name) ==
    LET r == DBCategoryRepo_get(categories, name)
    IN  /\ repo_call([op |-> "DBCategoryRepo.get", name |-> name],
                     r.raised, r.value, <<"session.exec">>)
        /\ UNCHANGED <<categories, expenses>>

DBCategoryRepo_delete_call(name) ==
    LET r == DBCategoryRepo_delete(categories, name)
    IN  /\ repo_call([op |-> "DBCategoryRepo.delete", name |-> name],
                     r.raised, None,
                     IF r.raised = "None"
                     THEN <<"session.exec", "session.delete",
                            "session.commit">>
                     ELSE <<"session.exec">>)
        /\ categories' = r.categories
        /\ expenses' = IF r.raised = "None"
                       THEN without_category(expenses, name) ELSE expenses

DBCategoryRepo_list_call ==
    /\ repo_call([op |-> "DBCategoryRepo.list"], "None",
                 Some(DBCategoryRepo_list(categories)), <<"session.exec">>)
    /\ UNCHANGED <<categories, expenses>>

DBExpenseRepo_add_call(category, telegram_user_id) ==
    /\ new_row_id(DOMAIN expenses) <= MaxExpenses
    /\ LET r == DBExpenseRepo_add(
                    expenses,
                    Expense(100, "EUR", None, category, telegram_user_id))
       IN  /\ repo_call([op |-> "DBExpenseRepo.add", expense |-> r.expense],
                        r.raised, None, <<"session.add", "session.commit">>)
           /\ expenses' = r.expenses
    /\ UNCHANGED categories

DBExpenseRepo_get_call(expense_id) ==
    LET r == DBExpenseRepo_get(expenses, expense_id)
    IN  /\ repo_call([op |-> "DBExpenseRepo.get", expense_id |-> expense_id],
                     r.raised, r.value, <<"session.get">>)
        /\ UNCHANGED <<categories, expenses>>

DBExpenseRepo_delete_call(expense_id) ==
    LET r == DBExpenseRepo_delete(expenses, expense_id)
    IN  /\ repo_call([op |-> "DBExpenseRepo.delete",
                      expense_id |-> expense_id],
                     r.raised, None,
                     IF r.raised = "None"
                     THEN <<"session.get", "session.delete",
                            "session.commit">>
                     ELSE <<"session.get">>)
        /\ expenses' = r.expenses
        /\ UNCHANGED categories

DBExpenseRepo_list_by_user_call(telegram_user_id) ==
    /\ repo_call([op |-> "DBExpenseRepo.list_by_user",
                  telegram_user_id |-> telegram_user_id], "None",
                 Some(DBExpenseRepo_list_by_user(expenses, telegram_user_id)),
                 <<"session.exec">>)
    /\ UNCHANGED <<categories, expenses>>

\* __exit__ of a repository used as a context manager
DBRepo_exit ==
    /\ Idle
    /\ session # None
    /\ call' = [op |-> "DBRepo.__exit__"]
    /\ raised' = "None"
    /\ result' = None
    /\ trace' = IF session[1].owns_session THEN <<"session.close">> ELSE <<>>
    /\ session' = session_after(session, trace')
    /\ UNCHANGED <<service, repos, io, assistant, messages, provider_calls>>

\* DBCategoryRepo(db_url, session) and DBExpenseRepo(db_url, session) on
\* empty tables: with the caller's session, or with one of their own
SessionInit ==
    /\ service = [category_repo |-> FALSE, expense_repo |-> FALSE]
    /\ categories = <<>>
    /\ expenses = <<>>
    /\ next_id = 1
    /\ call = NoCall
    /\ raised = "None"
    /\ result = None
    /\ trace = <<>>
    /\ text = <<>>
    /\ NoRequest
    /\ AssistantAtRest
    /\ session \in {Some(Session(owns)) : owns \in BOOLEAN}

SessionNext ==
    \/ \E n \in RepositoryNames : DBCategoryRepo_add_call(n)
    \/ \E i \in 1..MaxCategories, n \in RepositoryNames :
          DBCategoryRepo_update_call(i, n)
    \/ \E n \in RepositoryNames : DBCategoryRepo_get_call(n)
    \/ \E n \in RepositoryNames : DBCategoryRepo_delete_call(n)
    \/ DBCategoryRepo_list_call
    \/ \E c \in HeldCategories, u \in UserIds : DBExpenseRepo_add_call(c, u)
    \/ \E i \in ExpenseIds : DBExpenseRepo_get_call(i)
    \/ \E i \in ExpenseIds : DBExpenseRepo_delete_call(i)
    \/ \E u \in {1, 2} : DBExpenseRepo_list_by_user_call(u)
    \/ DBRepo_exit
    \/ Return

SessionSpec == SessionInit /\ [][SessionNext]_vars

--------------------------------------------------------------------------
(* C16 *)

\* the last operation was a call of a DB repository
IsRepositoryCall == session # None /\ ~Idle

\* the repository works on a session its caller supplied
CallerSession == session # None /\ ~session[1].owns_session

\* the last operation made this call on the session
Made(e) == \E i \in DOMAIN trace : trace[i] = e

\* the repository operations that write
WriteOps ==
    {"DBCategoryRepo.add", "DBCategoryRepo.update", "DBCategoryRepo.delete",
     "DBExpenseRepo.add", "DBExpenseRepo.delete"}

\* the operation entered its own session and closed it before returning
ClosedWithinCall ==
    /\ trace # <<>>
    /\ trace[1] = "session.__enter__"
    /\ trace[Len(trace)] = "session.close"
    /\ ~session[1].in_transaction

--------------------------------------------------------------------------
(* api/deps.py, api/schemas/expense.py, api/routes/expenses.py *)

\* config("DEFAULT_USER_ID", default=12345)
DEFAULT_USER_ID == 12345

\* get_user_id: the X-User-ID header, or the default user
get_user_id(x_user_id) ==
    IF x_user_id # None THEN x_user_id[1] ELSE DEFAULT_USER_ID

\* Field(min_length=3, max_length=500) of ExpenseClassifyRequest.description
DESCRIPTION_MIN_LENGTH == 3
DESCRIPTION_MAX_LENGTH == 500

\* ExpenseClassifyRequest that accepts a description of any length
ExpenseClassifyRequest_unchecked(description) ==
    [raised |-> "None", description |-> description]

\* ExpenseClassifyRequest(description=...): the request body, validated by
\* the framework before the route runs
ExpenseClassifyRequest(description) ==
    IF \/ Len(description) < DESCRIPTION_MIN_LENGTH
       \/ Len(description) > DESCRIPTION_MAX_LENGTH
    THEN [raised |-> "RequestValidationError", description |-> description]
    ELSE [raised |-> "None", description |-> description]

\* the answer to a request: status code and detail or body
HTTPResponse(request, status_code, detail) ==
    [request |-> request, status_code |-> status_code, detail |-> detail]

\* f"Expense {expense_id} not found"
not_found_detail(expense_id) == "Expense " \o ToString(expense_id) \o " not found"

\* the ownership check that lets every user through
owned_by_anyone(expense, user_id) == TRUE

\* expense.telegram_user_id != user_id, negated
owned_by(expense, user_id) == expense.telegram_user_id = Some(user_id)

\* the assistant get_classification_service builds for a request
ApiAssistant == OpenAIAssistant(DEFAULT_MODEL, TRUE, FALSE)

\* a request is answered without the service being called
answered(request, status_code, detail) ==
    /\ call' = [op |-> "request"]
    /\ raised' = "None"
    /\ result' = None
    /\ trace' = <<>>
    /\ answer' = HTTPResponse(request, status_code, detail)

\* POST /api/v1/expenses/classify with this description and X-User-ID
\* header, the provider answering `first`
classify_expense(description, x_user_id, first) ==
    LET user_id == get_user_id(x_user_id)
        request == [method |-> "POST", path |-> "/classify",
                    description |-> description, user_id |-> user_id]
        body == ExpenseClassifyRequest(description)
        pre == preprocess(description)
        c == OpenAIAssistant_completion(
                 ApiAssistant, classify_messages(pre.cleaned_text),
                 first, None)
        outcome == IF c.raised = "None" THEN c.value ELSE None
    IN  /\ Idle
        /\ new_row_id(DOMAIN expenses) <= MaxExpenses
        /\ IF body.raised # "None"
           THEN /\ answered(request, 422, body.raised)
                /\ UNCHANGED <<service, repos>>
           ELSE IF ~pre.is_valid
           THEN /\ answered(request, 400, pre.validation_errors)
                /\ UNCHANGED <<service, repos>>
           ELSE /\ classify_step(pre.cleaned_text, TRUE, Some(user_id),
                                 outcome)
                /\ answer' =
                     IF raised' # "None"
                     THEN HTTPResponse(request, 500, "Classification failed")
                     ELSE HTTPResponse(
                              request, 201,
                              [id |-> result'[1].expense[1].id,
                               description |-> pre.cleaned_text,
                               category |-> result'[1].response.category])
        /\ UNCHANGED <<untouched, user_data, state, assistant, messages,
                       provider_calls, session>>

\* GET /api/v1/expenses/{expense_id}
get_expense(expense_id, x_user_id) ==
    LET user_id == get_user_id(x_user_id)
        request == [method |-> "GET", path |-> "/{expense_id}",
                    expense_id |-> expense_id, user_id |-> user_id]
        got == DBExpenseRepo_get(expenses, expense_id)
    IN  /\ Idle
        /\ IF got.raised # "None"
           THEN answered(request, 404, not_found_detail(expense_id))
           ELSE IF ~owned_by(got.value[1], user_id)
           THEN answered(request, 404, not_found_detail(expense_id))
           ELSE answered(request, 200, got.value[1])
        /\ UNCHANGED <<service, repos, untouched, user_data, state, assistant,
                       messages, provider_calls, session>>

\* DELETE /api/v1/expenses/{expense_id}
delete_expense(expense_id, x_user_id) ==
    LET user_id == get_user_id(x_user_id)
        request == [method |-> "DELETE", path |-> "/{expense_id}",
                    expense_id |-> expense_id, user_id |-> user_id]
        got == DBExpenseRepo_get(expenses, expense_id)
    IN  /\ Idle
        /\ IF got.raised # "None"
           THEN /\ answered(request, 404, not_found_detail(expense_id))
                /\ UNCHANGED expenses
           ELSE IF ~owned_by(got.value[1], user_id)
           THEN /\ answered(request, 404, not_found_detail(expense_id))
                /\ UNCHANGED expenses
           ELSE /\ answered(request, 204, None)
                /\ expenses' =
                     DBExpenseRepo_delete(expenses, expense_id).expenses
        /\ UNCHANGED <<service, categories, next_id, untouched, user_data, state,
                       assistant, messages, provider_calls, session>>

\* results.all() of select(Expense).where(telegram_user_id == ...): the
\* user's rows, in primary-key order
RECURSIVE rows_in_id_order(_, _)
rows_in_id_order(exps, ids) ==
    IF ids = {} THEN <<>>
    ELSE LET first == CHOOSE i \in ids : \A j \in ids : i <= j
         IN  <<exps[first]>> \o rows_in_id_order(exps, ids \ {first})

results_all(exps, telegram_user_id) ==
    rows_in_id_order(exps,
        {k \in DOMAIN exps :
           exps[k].telegram_user_id = Some(telegram_user_id)})

\* a slice bound of a list of length n: negative bounds count from the end,
\* bounds outside the list are clamped
slice_index(n, i) ==
    IF i < 0 THEN (IF n + i < 0 THEN 0 ELSE n + i)
    ELSE IF i > n THEN n ELSE i

\* s[start:end_]
slice(s, start, end_) ==
    LET a == slice_index(Len(s), start)
        b == slice_index(Len(s), end_)
    IN  IF a >= b THEN <<>> ELSE SubSeq(s, a + 1, b)

\* math.ceil(total / page_size), page_size > 0
math_ceil(total, page_size) == (total + page_size - 1) \div page_size

\* a page that starts at page * page_size
page_start_zero_based(page, page_size) == page * page_size

\* start = (page - 1) * page_size
page_start(page, page_size) == (page - 1) * page_size

\* ExpenseListResponse of list_expenses, page_size > 0
ExpenseListResponse(exps, user_id, page, page_size) ==
    LET all_expenses == results_all(exps, user_id)
        total == Len(all_expenses)
        ceiling == math_ceil(total, page_size)
        start == page_start(page, page_size)
    IN  [items |-> slice(all_expenses, start, start + page_size),
         total |-> total,
         page |-> page,
         page_size |-> page_size,
         pages |-> IF ceiling > 1 THEN ceiling ELSE 1]

\* GET /api/v1/expenses/?page=...&page_size=...: a page_size of 0 divides
\* by zero and the request is answered 500
list_expenses(x_user_id, page, page_size) ==
    LET user_id == get_user_id(x_user_id)
        request == [method |-> "GET", path |-> "/", user_id |-> user_id,
                    page |-> page, page_size |-> page_size]
    IN  /\ Idle
        /\ IF page_size = 0
           THEN answered(request, 500, "Internal Server Error")
           ELSE answered(request, 200,
                         ExpenseListResponse(expenses, user_id, page,
                                             page_size))
        /\ UNCHANGED <<service, repos, untouched, user_data, state, assistant,
                       messages, provider_calls, session>>

\* the page and page_size query parameters of the requests
Pages == 0..(MaxExpenses + 1)
PageSizes == 0..MaxExpenses

\* the client has the answer; the request's session is closed
ApiReturn ==
    /\ ~Idle
    /\ call' = NoCall
    /\ raised' = "None"
    /\ result' = None
    /\ trace' = <<>>
    /\ answer' = None
    /\ UNCHANGED <<service, repos, untouched, user_data, state, assistant,
                   messages, provider_calls, session>>

--------------------------------------------------------------------------
(* Specification of the API *)

\* descriptions a client posts: too short for the schema, long enough for
\* the schema but not once trimmed, blank, valid, with markup, too long
ApiDescriptions ==
    { <<"a", "b">>,
      <<" ", "a", "b", " ">>,
      <<" ", " ", " ">>,
      <<"a", " ", "5">>,
      <<"a", "b", "c">>,
      <<"<", "s", "c", "r", "i", "p", "t">>,
      Repeat("a", MAX_LENGTH),
      Repeat("a", MAX_LENGTH + 1),
      <<" ">> \o Repeat("a", MAX_LENGTH) }

\* X-User-ID headers: absent, or one of two users
ApiHeaders == {None, Some(1), Some(2)}

\* what the provider answers: nothing (the call raises), no text, a full
\* object, an object without the fields, prose
ApiOutcomes ==
    {None, Some(ChatCompletion(None, <<>>, FirstUsage))}
    \cup {Some(ChatCompletion(Some(c), <<>>, FirstUsage)) :
            c \in {<<"{", "v", "}">>, <<"{", "}">>, <<"t">>}}

\* the service and the repositories the dependencies build, on the
\* request's session, over empty tables
ApiInit ==
    /\ service = [category_repo |-> TRUE, expense_repo |-> TRUE]
    /\ categories = <<>>
    /\ expenses = <<>>
    /\ next_id = 1
    /\ call = NoCall
    /\ raised = "None"
    /\ result = None
    /\ trace = <<>>
    /\ text = <<>>
    /\ NoRequest
    /\ AssistantAtRest
    /\ session = Some(Session(FALSE))

ApiNext ==
    \/ \E d \in ApiDescriptions, h \in ApiHeaders, first \in ApiOutcomes :
          classify_expense(d, h, first)
    \/ \E i \in 1..(MaxExpenses + 1), h \in ApiHeaders : get_expense(i, h)
    \/ \E i \in 1..(MaxExpenses + 1), h \in ApiHeaders : delete_expense(i, h)
    \/ \E h \in ApiHeaders, p \in Pages, n \in PageSizes :
          list_expenses(h, p, n)
    \/ ApiReturn

ApiSpec == ApiInit /\ [][ApiNext]_vars

--------------------------------------------------------------------------
(* C14 *)

\* the last request answered was a POST /classify
IsClassifyAnswer == answer # None /\ answer.request.method = "POST"

\* d fails the validation the claim lists: blank after trimming, shorter
\* than the minimum, longer than the maximum, or an injection pattern
FailsValidation(d) == Trimmed(d) = <<>> \/ ~Acceptable(d)

\* d as sent is outside the lengths the request schema allows
OutsideSchema(d) == Len(d) < 3 \/ Len(d) > 500

\* the service was called, the assistant answered and everything was stored
ClassifiedAndStored ==
    /\ call.op = "classify"
    /\ call.completion # None
    /\ raised = "None"

\* C14 as stated: 201 exactly when the description passes validation and
\* classification with persistence succeeds, 400 whenever the description
\* fails validation, 500 whenever classification or persistence raises, and
\* no expense stored on a 400 or 500 answer.
C14_Original ==
    [][IsClassifyAnswer' =>
         LET d == answer'.request.description
             s == answer'.status_code
         IN  /\ (s = 201) <=> (~FailsValidation(d) /\ ClassifiedAndStored')
             /\ FailsValidation(d) => s = 400
             /\ (call'.op = "classify" /\ raised' # "None") => s = 500
             /\ s \in {400, 500} => expenses' = expenses]_vars

\* C14: POST /classify answers 422 when the description as sent is shorter
\* than 3 or longer than 500 characters; 400 when a description of 3 to 500
\* characters is blank after trimming, shorter than 3 characters once
\* trimmed or matches an injection pattern; 500 when classification or
\* persistence raises; 201, with one expense more stored for the requesting
\* user, exactly in the remaining case; a 400, 422 or 500 answer leaves the
\* stored expenses as they were.
C14_ClassifyAnswers ==
    [][IsClassifyAnswer' =>
         LET d == answer'.request.description
             s == answer'.status_code
         IN  /\ OutsideSchema(d) => s = 422
             /\ (~OutsideSchema(d) /\ FailsValidation(d)) => s = 400
             /\ (call'.op = "classify" /\ raised' # "None") => s = 500
             /\ (s = 201) <=> /\ ~OutsideSchema(d)
                              /\ ~FailsValidation(d)
                              /\ ClassifiedAndStored'
             /\ s \in {400, 422, 500} => expenses' = expenses
             /\ s = 201 =>
                  \E i \in DOMAIN expenses' \ DOMAIN expenses :
                     /\ answer'.detail.id = Some(i)
                     /\ expenses'[i].telegram_user_id =
                            Some(answer'.request.user_id)
                     /\ [k \in DOMAIN expenses |-> expenses'[k]] = expenses
             /\ s \in {201, 400, 422, 500}]_vars

\* a description of two characters was answered 422, one that is too short
\* only once trimmed would have been answered 400
C14_Witness ==
    /\ IsClassifyAnswer
    /\ Len(answer.request.description) < 3
    /\ answer.status_code = 422
    /\ expenses # <<>>

--------------------------------------------------------------------------
(* C13 *)

\* the last request answered was a GET or a DELETE of one expense
IsExpenseAnswer ==
    answer # None /\ answer.request.path = "/{expense_id}"

\* what a request for an expense that does not exist is answered
MissingAnswer(request) ==
    [request |-> request, status_code |-> 404,
     detail |-> "Expense " \o ToString(request.expense_id) \o " not found"]

\* the expense i is stored and belongs to another user than u
OwnedByAnother(exps, i, u) ==
    i \in DOMAIN exps /\ exps[i].telegram_user_id # Some(u)

\* C13: a GET or DELETE of an expense that another user owns is answered
\* 404 exactly as a request for an id that does not exist, and leaves the
\* stored expenses as they were; a DELETE removes an expense, and only that
\* one, only when the requesting user is its owner.
C13_CrossUserIsolation ==
    [][IsExpenseAnswer' =>
         LET q == answer'.request
             i == q.expense_id
             u == q.user_id
         IN  /\ i \notin DOMAIN expenses => answer' = MissingAnswer(q)
             /\ OwnedByAnother(expenses, i, u) =>
                    /\ answer' = MissingAnswer(q)
                    /\ expenses' = expenses
             /\ expenses' # expenses =>
                    /\ q.method = "DELETE"
                    /\ i \in DOMAIN expenses
                    /\ expenses[i].telegram_user_id = Some(u)
                    /\ answer'.status_code = 204
                    /\ expenses' =
                         [k \in DOMAIN expenses \ {i} |-> expenses[k]]]_vars

\* a user asked to delete another user's expense, was answered 404, and the
\* expense is still stored
C13_Witness ==
    /\ IsExpenseAnswer
    /\ answer.request.method = "DELETE"
    /\ OwnedByAnother(expenses, answer.request.expense_id,
                      answer.request.user_id)
    /\ answer = MissingAnswer(answer.request)

--------------------------------------------------------------------------
(* telegram/keyboards.py, telegram/handlers.py *)

\* CATEGORY_CALLBACK_PREFIX = "category:"
CATEGORY_CALLBACK_PREFIX == <<"c", "a", "t", "e", "g", "o", "r", "y", ":">>

\* message.text or ""
text_or_empty(message_text) ==
    IF message_text = None THEN <<>> ELSE message_text[1]

\* context.user_data.get(key)
user_data_get(data, key) ==
    IF key \in DOMAIN data THEN Some(data[key]) ELSE None

\* handle_expense_text classifying with persist=True
text_message_persist_always == TRUE

\* persist=False of the classify call of handle_expense_text
text_message_persist == FALSE

\* handle_expense_text that asks for a confirmation whatever happened
expense_text_returns_waiting(is_valid, classified) == WAITING_FOR_CONFIRMATION

\* what handle_expense_text returns
expense_text_returns(is_valid, classified) ==
    IF ~is_valid THEN END
    ELSE IF ~classified THEN END
    ELSE WAITING_FOR_CONFIRMATION

\* the state of the conversation once a handler has returned: END ends the
\* conversation, and the user is without one again
conversation_state(returned) ==
    IF returned = END THEN ENTRY ELSE Some(returned)

\* _build_assistant()
build_assistant == OpenAIAssistant(DEFAULT_MODEL, TRUE, FALSE)

\* what the bot did with an update: the handler that ran, the message it
\* sent or edited, and the state it returned
BotAnswer(update, handler, reply, returned) ==
    [update |-> update, handler |-> handler, reply |-> reply,
     returned |-> returned]

\* a handler answers without calling the service
replied(update, handler, reply, returned) ==
    /\ call' = [op |-> "update"]
    /\ raised' = "None"
    /\ result' = None
    /\ trace' = <<>>
    /\ answer' = BotAnswer(update, handler, reply, Some(returned))
    /\ state' = conversation_state(returned)

\* a text message that is not a command, outside a conversation: the
\* entry point of the conversation
handle_expense_text(message_text, user, first) ==
    LET update == [kind |-> "text", text |-> message_text, user |-> user]
        pre == preprocess(text_or_empty(message_text))
        c == OpenAIAssistant_completion(
                 build_assistant, classify_messages(pre.cleaned_text),
                 first, None)
        outcome == IF c.raised = "None" THEN c.value ELSE None
    IN  /\ Idle
        /\ state = ENTRY
        /\ IF ~pre.is_valid
           THEN /\ replied(update, "handle_expense_text", "Invalid input",
                           expense_text_returns(FALSE, FALSE))
                /\ UNCHANGED <<service, repos, user_data>>
           ELSE /\ classify_step(pre.cleaned_text, text_message_persist,
                                 None, outcome)
                /\ state' = conversation_state(
                                 expense_text_returns(TRUE, raised' = "None"))
                /\ IF raised' # "None"
                   THEN /\ answer' = BotAnswer(
                               update, "handle_expense_text",
                               "Sorry, I couldn't classify your expense",
                               Some(expense_text_returns(TRUE, FALSE)))
                        /\ UNCHANGED user_data
                   ELSE /\ answer' = BotAnswer(
                               update, "handle_expense_text",
                               "Please confirm or choose",
                               Some(expense_text_returns(TRUE, TRUE)))
                        /\ user_data' =
                             ("expense_description" :> pre.cleaned_text)
                             @@ ("llm_response" :> result'[1].response)
                             @@ user_data
        /\ UNCHANGED <<untouched, assistant, messages, provider_calls, session>>

\* the message the try block of handle_category_selection leaves on the
\* screen: the success text when no step raised (a failed conversion is
\* caught by _format_amount_with_conversion), the apology of the except
\* clause when persist_with_category, the preference lookup or the edit of
\* the message raised
selection_reply(persist_raised, failing) ==
    IF persist_raised = "None" /\ failing \in {"none", "amount formatting"}
    THEN "Expense saved"
    ELSE "Sorry, I couldn't save your expense"

\* a callback query while the conversation waits for the confirmation;
\* `failing` is the step of the try block whose infrastructure (database,
\* exchange-rate service, Telegram) fails, "none" when all of it works
handle_category_selection_step(callback_data, user, failing) ==
    LET update == [kind |-> "callback_query", data |-> callback_data,
                   user |-> user]
        selected_category ==
            SubSeq(callback_data, Len(CATEGORY_CALLBACK_PREFIX) + 1,
                   Len(callback_data))
        expense_description == user_data_get(user_data, "expense_description")
        llm_response == user_data_get(user_data, "llm_response")
    IN  /\ Idle
        /\ state = Some(WAITING_FOR_CONFIRMATION)
        /\ new_row_id(DOMAIN expenses) <= MaxExpenses
        /\ IF ~startswith(callback_data, CATEGORY_CALLBACK_PREFIX)
           THEN /\ replied(update, "handle_category_selection",
                           "Invalid selection", END)
                /\ UNCHANGED <<service, repos, user_data>>
           ELSE IF \/ expense_description = None
                   \/ expense_description[1] = <<>>
                   \/ llm_response = None
           THEN /\ replied(update, "handle_category_selection",
                           "Session expired", END)
                /\ UNCHANGED <<service, repos, user_data>>
           ELSE /\ IF failing = "persistence"
                   THEN /\ call' = [op |-> "persist_with_category"]
                        /\ raised' = "OperationalError"
                        /\ result' = None
                        /\ trace' = <<>>
                        /\ UNCHANGED <<service, repos>>
                   ELSE persist_with_category_step(
                            expense_description[1], llm_response[1],
                            selected_category, user)
                /\ answer' = BotAnswer(
                       update, "handle_category_selection",
                       selection_reply(raised', failing), Some(END))
                /\ user_data' = <<>>
                /\ state' = conversation_state(END)
        /\ UNCHANGED <<untouched, assistant, messages, provider_calls, session>>

\* the handler when the database, the exchange-rate service and Telegram
\* all work
handle_category_selection(callback_data, user) ==
    handle_category_selection_step(callback_data, user, "none")

\* /cancel while the conversation waits for the confirmation: the fallback
cancel_command(user) ==
    /\ Idle
    /\ state = Some(WAITING_FOR_CONFIRMATION)
    /\ replied([kind |-> "command", command |-> "cancel", user |-> user],
               "cancel_command", "Operation cancelled", END)
    /\ user_data' = <<>>
    /\ UNCHANGED <<service, repos, untouched, assistant, messages,
                   provider_calls, session>>

\* ExpenseTelegramBot.setup: the handlers added to the application, in
\* order
setup_handlers ==
    << [handler |-> "CommandHandler", command |-> "start",
        callback |-> "start_command"],
       [handler |-> "CommandHandler", command |-> "help",
        callback |-> "help_command"],
       [handler |-> "ConversationHandler", command |-> "",
        callback |-> "expense_conversation"] >>

\* the callback a registered handler runs for an update, "none" when the
\* handler does not take it: a CommandHandler takes its command; the
\* conversation takes a text that is not a command when the user has no
\* conversation, and a callback query or /cancel while it waits
check_update(h, update, st) ==
    IF h.handler = "CommandHandler"
    THEN IF update.kind = "command" /\ update.command = h.command
         THEN h.callback ELSE "none"
    ELSE IF st = ENTRY
    THEN IF update.kind = "text" THEN "handle_expense_text" ELSE "none"
    ELSE IF update.kind = "callback_query" THEN "handle_category_selection"
    ELSE IF update.kind = "command" /\ update.command = "cancel"
    THEN "cancel_command"
    ELSE "none"

\* the callback the application runs for an update: that of the first
\* registered handler that takes it
route(update, st) ==
    LET taking == {i \in DOMAIN setup_handlers :
                     check_update(setup_handlers[i], update, st) # "none"}
    IN  IF taking = {} THEN "none"
        ELSE check_update(
                 setup_handlers[CHOOSE i \in taking :
                                   \A j \in taking : i <= j],
                 update, st)

\* /start: the welcome message
start_command(user) ==
    LET update == [kind |-> "command", command |-> "start", user |-> user]
    IN  /\ Idle
        /\ route(update, state) = "start_command"
        /\ call' = [op |-> "update"]
        /\ raised' = "None"
        /\ result' = None
        /\ trace' = <<>>
        /\ answer' = BotAnswer(update, "start_command", "Welcome", None)
        /\ UNCHANGED <<service, repos, untouched, user_data, state,
                       assistant, messages, provider_calls, session>>

\* /help: the help message
help_command(user) ==
    LET update == [kind |-> "command", command |-> "help", user |-> user]
    IN  /\ Idle
        /\ route(update, state) = "help_command"
        /\ call' = [op |-> "update"]
        /\ raised' = "None"
        /\ result' = None
        /\ trace' = <<>>
        /\ answer' = BotAnswer(update, "help_command", "How to use", None)
        /\ UNCHANGED <<service, repos, untouched, user_data, state,
                       assistant, messages, provider_calls, session>>

\* the updates no registered handler takes in this state of the
\* conversation: nothing runs
unhandled(update) ==
    /\ Idle
    /\ route(update, state) = "none"
    /\ call' = [op |-> "update"]
    /\ raised' = "None"
    /\ result' = None
    /\ trace' = <<>>
    /\ answer' = BotAnswer(update, "none", "none", None)
    /\ UNCHANGED <<service, repos, untouched, user_data, state, assistant,
                   messages, provider_calls, session>>

\* the update is processed; the next one can be taken
BotReturn ==
    /\ ~Idle
    /\ call' = NoCall
    /\ raised' = "None"
    /\ result' = None
    /\ trace' = <<>>
    /\ answer' = None
    /\ UNCHANGED <<service, repos, untouched, user_data, state, assistant,
                   messages, provider_calls, session>>

--------------------------------------------------------------------------
(* Specification of the bot conversation of one user *)

\* message.text: absent, too short, valid with and without an amount and
\* surrounding whitespace, with markup
BotTexts ==
    { None, Some(<<"a", "b">>), Some(<<" ", "a", " ", " ", "5", " ">>),
      Some(<<"a", "b", "c">>),
      Some(<<"<", "s", "c", "r", "i", "p", "t">>) }

\* query.data: the suggested category, another category of the keyboard,
\* and the data of another keyboard
CallbackData ==
    { CATEGORY_CALLBACK_PREFIX \o <<"f">>,
      CATEGORY_CALLBACK_PREFIX \o <<"O", "t", "h", "e", "r">>,
      <<"s", "e", "t", "c", "u", "r", "r", "e", "n", "c", "y", ":",
        "U", "S", "D">> }

\* update.effective_user.id of the user
BotUser == Some(1)

\* what the provider answers: nothing (the call raises), a full object,
\* prose
BotOutcomes ==
    {None} \cup {Some(ChatCompletion(Some(c), <<>>, FirstUsage)) :
                    c \in {<<"{", "v", "}">>, <<"t">>}}

\* the updates of the user
BotUpdates ==
    {[kind |-> "text", text |-> t, user |-> BotUser] : t \in BotTexts}
    \cup {[kind |-> "callback_query", data |-> d, user |-> BotUser] :
             d \in CallbackData}
    \cup {[kind |-> "command", command |-> c, user |-> BotUser] :
             c \in {"start", "help", "currency", "cancel"}}

\* the bot started: no conversation, empty tables; the service of
\* handle_category_selection has both repositories, on its session
BotInit ==
    /\ service = [category_repo |-> TRUE, expense_repo |-> TRUE]
    /\ categories = <<>>
    /\ expenses = <<>>
    /\ next_id = 1
    /\ call = NoCall
    /\ raised = "None"
    /\ result = None
    /\ trace = <<>>
    /\ text = <<>>
    /\ NoRequest
    /\ AssistantAtRest
    /\ session = Some(Session(FALSE))

BotNext ==
    \/ \E t \in BotTexts, first \in BotOutcomes :
          handle_expense_text(t, BotUser, first)
    \/ \E d \in CallbackData : handle_category_selection(d, BotUser)
    \/ cancel_command(BotUser)
    \/ start_command(BotUser)
    \/ help_command(BotUser)
    \/ \E u \in BotUpdates : unhandled(u)
    \/ BotReturn

BotSpec == BotInit /\ [][BotNext]_vars

--------------------------------------------------------------------------
(* C11, C12 *)

\* the handler that processed the last update: "none" when the conversation
\* had no handler for it
Handler == IF answer = None THEN "no update" ELSE answer.handler

\* the assistant returned a classification to the last service call
Classified == call.op = "classify" /\ call.completion # None

\* the text of a message passes the preprocessor's validation
ValidText(message_text) ==
    message_text # None /\ ~FailsValidation(message_text[1])

Tables == <<categories, expenses>>

\* the update is a callback query of a category button
IsSelection(update) ==
    /\ update.kind = "callback_query"
    /\ startswith(update.data, CATEGORY_CALLBACK_PREFIX)

\* the category a selection names
Chosen(update) ==
    SubSeq(update.data, Len(CATEGORY_CALLBACK_PREFIX) + 1, Len(update.data))

--------------------------------------------------------------------------
(* utils/currency.py, and the amount line of telegram/handlers.py *)

\* convert_currency(amount, from_currency, to_currency) with this key
\* configured, the exchange-rate service answering `reply` (None when
\* requests.get raises): the Decimal, or the exception, and the requests made
convert_currency(key, amount, from_currency, to_currency, reply) ==
    LET url == [from_currency |-> from_currency,
                to_currency |-> to_currency, amount |-> amount]
        sent == <<[op |-> "requests.get", url |-> url]>>
    IN  IF key = <<>>
        THEN [raised |-> "ValueError", value |-> None, trace |-> <<>>]
        ELSE IF reply = None
        THEN [raised |-> "RequestException", value |-> None, trace |-> sent]
        ELSE IF \/ reply[1].status_code # 200
                \/ reply[1].data.result # "success"
        THEN [raised |-> "ValueError", value |-> None, trace |-> sent]
        ELSE [raised |-> "None",
              value |-> Some(reply[1].data.conversion_result),
              trace |-> sent]

\* _format_amount_with_conversion: the amount in its own currency, and the
\* converted amount when the preferred currency differs and the conversion
\* works
format_amount_with_conversion(key, amount, expense_currency, preferred_currency, reply) ==
    LET original_str == [amount |-> amount, currency |-> expense_currency,
                         converted |-> None]
        c == convert_currency(key, amount, expense_currency,
                              preferred_currency, reply)
    IN  IF expense_currency = preferred_currency
        THEN [value |-> original_str, trace |-> <<>>]
        ELSE IF c.raised # "None"
        THEN [value |-> original_str, trace |-> c.trace]
        ELSE [value |-> [original_str EXCEPT !.converted =
                           Some([amount |-> c.value[1],
                                 currency |-> preferred_currency])],
              trace |-> c.trace]

\* a caller converts an amount
convert_currency_call(amount, from_currency, to_currency, reply) ==
    /\ Idle
    /\ LET c == convert_currency(api_key, amount, from_currency,
                                 to_currency, reply)
       IN  /\ call' = [op |-> "convert_currency", amount |-> amount,
                       from_currency |-> from_currency,
                       to_currency |-> to_currency, reply |-> reply]
           /\ raised' = c.raised
           /\ result' = c.value
           /\ trace' = c.trace
    /\ UNCHANGED <<service, repos, others>>

\* the bot formats the amount of a classification
format_amount_call(amount, expense_currency, preferred_currency, reply) ==
    /\ Idle
    /\ LET f == format_amount_with_conversion(
                    api_key, amount, expense_currency, preferred_currency,
                    reply)
       IN  /\ call' = [op |-> "_format_amount_with_conversion",
                       amount |-> amount,
                       from_currency |-> expense_currency,
                       to_currency |-> preferred_currency, reply |-> reply]
           /\ raised' = "None"
           /\ result' = Some(f.value)
           /\ trace' = f.trace
    /\ UNCHANGED <<service, repos, others>>

--------------------------------------------------------------------------
(* Specification of the currency conversion *)

\* amounts, in hundredths
Amounts == {0, 550, 5000}

\* what the exchange-rate service answers: nothing (the request raises), a
\* conversion, a refusal, a server error
ExchangeReplies ==
    {None}
    \cup {Some([status_code |-> 200,
                data |-> [result |-> "success", conversion_result |-> r]]) :
             r \in Amounts \cup {5432}}
    \cup {Some([status_code |-> 200,
                data |-> [result |-> "error", conversion_result |-> 0]]),
          Some([status_code |-> 500,
                data |-> [result |-> "error", conversion_result |-> 0]])}

\* the module is imported with or without a key configured
CurrencyInit ==
    /\ service = [category_repo |-> FALSE, expense_repo |-> FALSE]
    /\ categories = <<>>
    /\ expenses = <<>>
    /\ next_id = 1
    /\ call = NoCall
    /\ raised = "None"
    /\ result = None
    /\ trace = <<>>
    /\ text = <<>>
    /\ answer = None
    /\ user_data = <<>>
    /\ state = ENTRY
    /\ preferences = <<>>
    /\ in_flight = <<>>
    /\ api_key \in {<<>>, <<"k">>}
    /\ AssistantAtRest
    /\ session = None

CurrencyNext ==
    \/ \E a \in Amounts, f \in Currency, t \in Currency,
          r \in ExchangeReplies : convert_currency_call(a, f, t, r)
    \/ \E a \in Amounts, f \in Currency, t \in Currency,
          r \in ExchangeReplies : format_amount_call(a, f, t, r)
    \/ Return

CurrencySpec == CurrencyInit /\ [][CurrencyNext]_vars

--------------------------------------------------------------------------
(* C21 *)

\* the last operation was convert_currency between a currency and itself
SameCurrencyConversion ==
    /\ call.op = "convert_currency"
    /\ call.from_currency = call.to_currency

\* C21: convert_currency(amount, c, c) returns exactly the input amount,
\* without calling the exchange-rate service or depending on it.
C21_SameCurrencyIdentity ==
    SameCurrencyConversion =>
        /\ raised = "None"
        /\ result = Some(call.amount)
        /\ trace = <<>>

--------------------------------------------------------------------------
(* cli/cli.py: the classify command *)

\* DBCategoryRepo(session) of the command: the session is passed as db_url,
\* no session is given, and create_engine refuses what is not a URL
cli_category_repo == [raised |-> "ArgumentError"]

\* classify EXPENSE [--db/--no-db], the provider answering `first`: what
\* the command prints, the exit status, and the provider calls it made
cli_classify(expense, add_to_db, first) ==
    LET c == OpenAIAssistant_completion(
                 OpenAIAssistant(DEFAULT_MODEL, TRUE, FALSE),
                 classify_messages(expense), first, None)
        command == [name |-> "classify", expense |-> expense,
                    add_to_db |-> add_to_db]
        ran(exit_code, output) ==
            [command |-> command, exit_code |-> exit_code,
             output |-> output, llm_calls |-> Len(c.calls)]
    IN  /\ Idle
        /\ call' = [op |-> "cli.classify"]
        /\ result' = None
        /\ trace' = c.trace
        /\ IF c.raised # "None"
           THEN /\ raised' = c.raised
                /\ answer' = ran(1, <<>>)
           ELSE IF add_to_db
           THEN /\ raised' = cli_category_repo.raised
                /\ answer' = ran(1, <<"Adding classified expense to the database...">>)
           ELSE /\ raised' = "None"
                /\ answer' = ran(0, <<"Expense classified successfully!",
                                     "Expense Classification Result">>)
        /\ UNCHANGED <<service, repos, untouched, user_data, state,
                       assistant, messages, provider_calls, session>>

\* the command has exited
CliReturn ==
    /\ ~Idle
    /\ call' = NoCall
    /\ raised' = "None"
    /\ result' = None
    /\ trace' = <<>>
    /\ answer' = None
    /\ UNCHANGED <<service, repos, untouched, user_data, state,
                   assistant, messages, provider_calls, session>>

\* the texts given on the command line
CliTexts == ApiDescriptions \cup {<<>>, <<"5", " ", "a", "t">>}

\* the command line tool before a command is run, the tables empty
CliInit ==
    /\ service = [category_repo |-> FALSE, expense_repo |-> FALSE]
    /\ categories = <<>>
    /\ expenses = <<>>
    /\ next_id = 1
    /\ call = NoCall
    /\ raised = "None"
    /\ result = None
    /\ trace = <<>>
    /\ text = <<>>
    /\ NoRequest
    /\ AssistantAtRest
    /\ session = Some(Session(FALSE))

CliNext ==
    \/ \E t \in CliTexts, db \in BOOLEAN, first \in ApiOutcomes :
          cli_classify(t, db, first)
    \/ CliReturn

CliSpec == CliInit /\ [][CliNext]_vars

--------------------------------------------------------------------------
(* C22 *)

\* the classify command has just run
RanClassifyCommand == call.op = "cli.classify"

\* C22: run on a text that fails preprocessing, the classify command exits
\* with a nonzero status without calling the LLM and without writing to the
\* database; run on a valid text it exits with status 0 after printing the
\* result table, and writes an expense only when --db is set.
C22_CommandValidates ==
    [][RanClassifyCommand' =>
         LET text_ == answer'.command.expense
         IN  /\ FailsValidation(text_) =>
                  /\ answer'.exit_code # 0
                  /\ answer'.llm_calls = 0
                  /\ <<categories, expenses>>' = <<categories, expenses>>
             /\ (~FailsValidation(text_) /\ raised' = "None") =>
                  /\ answer'.exit_code = 0
                  /\ expenses' # expenses => answer'.command.add_to_db]_vars

--------------------------------------------------------------------------
(* C23, C24 *)

\* the update is a callback query of a currency button
IsCurrencySelection(update) ==
    /\ update.kind = "callback_query"
    /\ ~startswith(update.data, CATEGORY_CALLBACK_PREFIX)

\* the update is the command c
IsCommand(update, c) == update.kind = "command" /\ update.command = c

\* C23: after setup the application routes every bot command: /start and
\* /help to their handlers, /currency to the currency keyboard handler, a
\* currency-selection callback to the preference-saving handler, /cancel to
\* the conversation fallback while a conversation waits, and a free-text
\* message to the conversation's entry point.
C23_EveryCommandRouted ==
    [][answer' # None =>
         LET update == answer'.update
         IN  /\ IsCommand(update, "start") => Handler' = "start_command"
             /\ IsCommand(update, "help") => Handler' = "help_command"
             /\ IsCommand(update, "currency") => Handler' = "currency_command"
             /\ (IsCurrencySelection(update) /\ state = ENTRY) =>
                  Handler' = "handle_currency_selection"
             /\ (IsCommand(update, "cancel")
                   /\ state = Some(WAITING_FOR_CONFIRMATION)) =>
                  Handler' = "cancel_command"
             /\ (update.kind = "text" /\ state = ENTRY) =>
                  Handler' = "handle_expense_text"]_vars


\* the last update was handled by a handler that ended the conversation
EndedConversation ==
    /\ Handler \in {"cancel_command", "handle_category_selection"}
    /\ answer.returned = Some(END)

\* C24: whenever cancel_command or handle_category_selection returns END,
\* on any of its paths, user_data holds neither a stored expense description
\* nor a stored LLM response.
C24_EndClearsContext ==
    EndedConversation =>
        /\ user_data_get(user_data, "expense_description") = None
        /\ user_data_get(user_data, "llm_response") = None

--------------------------------------------------------------------------
(* C25 *)

\* the last request listed expenses with page >= 1 and page_size >= 1
IsListAnswer ==
    /\ answer # None
    /\ answer.request.path = "/"
    /\ answer.request.page >= 1
    /\ answer.request.page_size >= 1

\* the ids of the stored expenses user u owns
OwnedIds(u) == {i \in DOMAIN expenses : expenses[i].telegram_user_id = Some(u)}

\* the items of pages 1..n of user u, concatenated
RECURSIVE PagesThrough(_, _, _)
PagesThrough(u, page_size, n) ==
    IF n = 0 THEN <<>>
    ELSE PagesThrough(u, page_size, n - 1)
           \o ExpenseListResponse(expenses, u, n, page_size).items

\* C25: a listing for user u with page >= 1 and page_size >= 1 reports
\* total = the number of u's expenses and pages = max(1, ceil(total /
\* page_size)); pages 1..pages concatenated are exactly u's expenses, each
\* once, in repository order, none of another user; a page beyond pages is
\* empty and every page holds at most page_size items.
C25_Pagination ==
    IsListAnswer =>
        LET q == answer.request
            u == q.user_id
            body == answer.detail
            total == Cardinality(OwnedIds(u))
            every == PagesThrough(u, q.page_size, body.pages)
        IN  /\ answer.status_code = 200
            /\ body.total = total
            /\ body.pages >= 1
            /\ body.pages * q.page_size >= total
            /\ body.pages > 1 => (body.pages - 1) * q.page_size < total
            /\ Len(every) = total
            /\ {every[k].id[1] : k \in DOMAIN every} = OwnedIds(u)
            /\ \A k \in DOMAIN every : every[k] = expenses[every[k].id[1]]
            /\ \A j, k \in DOMAIN every :
                  j < k => every[j].id[1] < every[k].id[1]
            /\ body.items =
                  ExpenseListResponse(expenses, u, q.page, q.page_size).items
            /\ q.page > body.pages => body.items = <<>>
            /\ Len(body.items) <= q.page_size

\* the second and last page of a user who owns more expenses than a page
\* holds
C25_Witness ==
    /\ IsListAnswer
    /\ answer.request.page = 2
    /\ answer.detail.pages = 2
    /\ answer.detail.total > answer.request.page_size
    /\ answer.detail.items # <<>>

--------------------------------------------------------------------------
(* storage/repo.py, telegram/handlers.py: the users' preferred currency *)

\* CURRENCY_CALLBACK_PREFIX = "setcurrency:"
CURRENCY_CALLBACK_PREFIX ==
    <<"s", "e", "t", "c", "u", "r", "r", "e", "n", "c", "y", ":">>

\* the values of the Currency members
currency_values == [USD |-> <<"U", "S", "D">>, EUR |-> <<"E", "U", "R">>]

\* Currency(value): the member with this value, None where the enumeration
\* raises ValueError
Currency_member(value) ==
    IF \E c \in Currency : currency_values[c] = value
    THEN Some(CHOOSE c \in Currency : currency_values[c] = value)
    ELSE None

\* UserPreference: the user's identifier and the preferred display currency
UserPreference(telegram_user_id, preferred_currency) ==
    [telegram_user_id |-> telegram_user_id,
     preferred_currency |-> preferred_currency]

\* InMemoryUserPreferenceRepo: self.preferences, keyed by the user id
InMemoryUserPreferenceRepo_get_by_user_id(prefs, telegram_user_id) ==
    IF telegram_user_id \in DOMAIN prefs
    THEN Some(prefs[telegram_user_id]) ELSE None

InMemoryUserPreferenceRepo_upsert(prefs, telegram_user_id, currency) ==
    IF telegram_user_id \in DOMAIN prefs
    THEN [prefs EXCEPT ![telegram_user_id].preferred_currency = currency]
    ELSE (telegram_user_id :> UserPreference(telegram_user_id, currency))
           @@ prefs

\* DBUserPreferenceRepo: the rows of the table, keyed by their primary key;
\* results.first() is the key of the user's first row
results_first(prefs, telegram_user_id) ==
    LET rows == {k \in DOMAIN prefs :
                   prefs[k].telegram_user_id = telegram_user_id}
    IN  IF rows = {} THEN None
        ELSE Some(CHOOSE k \in rows : \A j \in rows : k <= j)

DBUserPreferenceRepo_get_by_user_id(prefs, telegram_user_id) ==
    LET existing == results_first(prefs, telegram_user_id)
    IN  IF existing = None THEN None ELSE Some(prefs[existing[1]])

\* an upsert that never looks for the user's row
DBUserPreferenceRepo_upsert_insert_only(prefs, telegram_user_id, currency) ==
    (new_row_id(DOMAIN prefs) :> UserPreference(telegram_user_id, currency))
      @@ prefs

DBUserPreferenceRepo_upsert(prefs, telegram_user_id, currency) ==
    LET existing == results_first(prefs, telegram_user_id)
    IN  IF existing # None
        THEN [prefs EXCEPT ![existing[1]].preferred_currency = currency]
        ELSE (new_row_id(DOMAIN prefs)
                :> UserPreference(telegram_user_id, currency)) @@ prefs

\* repo.get_by_user_id(telegram_user_id) of the repository in use
get_by_user_id(telegram_user_id) ==
    /\ Idle
    /\ call' = [op |-> "preference_repo.get_by_user_id",
                telegram_user_id |-> telegram_user_id]
    /\ raised' = "None"
    /\ result' = IF session = None
                 THEN InMemoryUserPreferenceRepo_get_by_user_id(
                          preferences, telegram_user_id)
                 ELSE DBUserPreferenceRepo_get_by_user_id(
                          preferences, telegram_user_id)
    /\ trace' = <<>>
    /\ UNCHANGED <<service, repos, io, assistant, messages, provider_calls,
                   session>>

\* repo.upsert(telegram_user_id, currency) of the repository in use
upsert(telegram_user_id, currency) ==
    /\ Idle
    /\ call' = [op |-> "preference_repo.upsert",
                telegram_user_id |-> telegram_user_id,
                currency |-> currency]
    /\ raised' = "None"
    /\ preferences' =
         IF session = None
         THEN InMemoryUserPreferenceRepo_upsert(
                  preferences, telegram_user_id, currency)
         ELSE DBUserPreferenceRepo_upsert(
                  preferences, telegram_user_id, currency)
    /\ result' = IF session = None
                 THEN InMemoryUserPreferenceRepo_get_by_user_id(
                          preferences', telegram_user_id)
                 ELSE DBUserPreferenceRepo_get_by_user_id(
                          preferences', telegram_user_id)
    /\ trace' = <<>>
    /\ UNCHANGED <<service, repos, text, in_flight, api_key, answer,
                   user_data, state, assistant, messages, provider_calls,
                   session>>

\* CurrencyHandler.handle_currency_selection for a callback query with this
\* data from this user, on the database table
handle_currency_selection(callback_data, user) ==
    LET update == [kind |-> "callback_query", data |-> callback_data,
                   user |-> user]
        currency_value ==
            SubSeq(callback_data, Len(CURRENCY_CALLBACK_PREFIX) + 1,
                   Len(callback_data))
        selected_currency == Currency_member(currency_value)
        reply == IF ~startswith(callback_data, CURRENCY_CALLBACK_PREFIX)
                 THEN "none"
                 ELSE IF selected_currency = None
                 THEN "Invalid currency selection"
                 ELSE IF user = None THEN "Could not identify user"
                 ELSE "Preferred currency set"
    IN  /\ Idle
        /\ session # None
        /\ call' = [op |-> "update"]
        /\ raised' = "None"
        /\ result' = None
        /\ trace' = <<>>
        /\ answer' = BotAnswer(update, "handle_currency_selection", reply,
                               None)
        /\ preferences' =
             IF reply = "Preferred currency set"
             THEN DBUserPreferenceRepo_upsert(preferences, user[1],
                                              selected_currency[1])
             ELSE preferences
        /\ UNCHANGED <<service, repos, text, in_flight, api_key, user_data,
                       state, assistant, messages, provider_calls, session>>

\* the users, and the data of the callback queries: currency buttons, a
\* value outside the enumeration, another keyboard's button, no data
PreferenceUsers == {1, 2}
CurrencyCallbackData ==
    {CURRENCY_CALLBACK_PREFIX \o currency_values[c] : c \in Currency}
    \cup {CURRENCY_CALLBACK_PREFIX \o <<"X">>,
          CATEGORY_CALLBACK_PREFIX \o <<"f">>, <<>>}

\* an empty repository, in memory or on the database
PreferenceInit ==
    /\ service = [category_repo |-> TRUE, expense_repo |-> TRUE]
    /\ categories = <<>>
    /\ expenses = <<>>
    /\ next_id = 1
    /\ call = NoCall
    /\ raised = "None"
    /\ result = None
    /\ trace = <<>>
    /\ text = <<>>
    /\ NoRequest
    /\ assistant = None
    /\ messages = <<>>
    /\ provider_calls = <<>>
    /\ session \in {None, Some(Session(FALSE))}

PreferenceNext ==
    \/ \E u \in PreferenceUsers : get_by_user_id(u)
    \/ \E u \in PreferenceUsers, c \in Currency : upsert(u, c)
    \/ \E d \in CurrencyCallbackData, u \in PreferenceUsers :
          \E user \in {None, Some(u)} : handle_currency_selection(d, user)
    \/ BotReturn

PreferenceSpec == PreferenceInit /\ [][PreferenceNext]_vars

--------------------------------------------------------------------------
(* C26 *)

\* the preference records of user u, and the currencies they hold
Records(prefs, u) == {k \in DOMAIN prefs : prefs[k].telegram_user_id = u}
Preferred(prefs, u) == {prefs[k].preferred_currency : k \in Records(prefs, u)}

\* the last operation is a selection event of user u for currency c with
\* the right prefix and a value of the enumeration
ValidSelection(u, c) ==
    /\ answer # None
    /\ answer.update.data = CURRENCY_CALLBACK_PREFIX \o currency_values[c]
    /\ answer.update.user = Some(u)

\* the last operation is an upsert or a valid selection of c for u
Selected(u, c) ==
    \/ call = [op |-> "preference_repo.upsert", telegram_user_id |-> u,
               currency |-> c]
    \/ ValidSelection(u, c)

\* C26: after any sequence of upserts and selection events each user has at
\* most one preference record, holding the currency of the user's latest
\* upsert or valid selection, and none before the first; get_by_user_id
\* returns that record or nothing; a selection with a wrong prefix, a value
\* outside Currency or no user, and any operation of another user, leave a
\* user's preference as it was.
C26_OnePreferencePerUser ==
    [][\A u \in PreferenceUsers :
         /\ Cardinality(Records(preferences', u)) <= 1
         /\ \A c \in Currency :
               Selected(u, c)' => Preferred(preferences', u) = {c}
         /\ (~\E c \in Currency : Selected(u, c)') =>
               Preferred(preferences', u) = Preferred(preferences, u)
         /\ (call'.op = "preference_repo.get_by_user_id"
               /\ call'.telegram_user_id = u) =>
               IF Preferred(preferences, u) = {} THEN result' = None
               ELSE /\ result' # None
                    /\ result'[1].telegram_user_id = u
                    /\ {result'[1].preferred_currency}
                         = Preferred(preferences, u)]_vars

\* a user changes the preference by a selection while another user's
\* preference, for the other currency, is stored
C26_Witness ==
    /\ ValidSelection(1, "EUR")
    /\ Preferred(preferences, 1) = {"EUR"}
    /\ Preferred(preferences, 2) = {"USD"}
    /\ Cardinality(DOMAIN preferences) = 2

--------------------------------------------------------------------------
(* storage/repo.py: get_monthly_totals *)

\* date.strftime("%Y-%m"), as the code points of its characters: four
\* digits of the year, "-", two digits of the month
strftime_year_month(date) ==
    << 48 + ((date.year \div 1000) % 10), 48 + ((date.year \div 100) % 10),
       48 + ((date.year \div 10) % 10), 48 + (date.year % 10), 45,
       48 + ((date.month \div 10) % 10), 48 + (date.month % 10) >>

\* a < b for two strings
str_lt(a, b) ==
    \/ Len(a) < Len(b) /\ SubSeq(b, 1, Len(a)) = a
    \/ \E i \in 1..Len(a) :
          /\ i <= Len(b)
          /\ SubSeq(a, 1, i - 1) = SubSeq(b, 1, i - 1)
          /\ a[i] < b[i]

\* totals[month_key] += expense.amount over the user's expenses
RECURSIVE month_total(_, _)
month_total(user_expenses, month_key) ==
    IF user_expenses = <<>> THEN 0
    ELSE (IF strftime_year_month(Head(user_expenses).date) = month_key
          THEN Head(user_expenses).amount ELSE 0)
           + month_total(Tail(user_expenses), month_key)

\* sorted(totals.items(), key=lambda x: x[0])
RECURSIVE sorted_months(_, _)
sorted_months(user_expenses, keys) ==
    IF keys = {} THEN <<>>
    ELSE LET least == CHOOSE k \in keys :
                         \A j \in keys : j = k \/ str_lt(k, j)
         IN  << <<least, month_total(user_expenses, least)>> >>
               \o sorted_months(user_expenses, keys \ {least})

\* get_monthly_totals: sorted_months[-months:]
get_monthly_totals(exps, telegram_user_id, months) ==
    LET user_expenses == results_all(exps, telegram_user_id)
        keys == {strftime_year_month(user_expenses[i].date) :
                   i \in DOMAIN user_expenses}
        sorted == sorted_months(user_expenses, keys)
    IN  slice(sorted, -months, Len(sorted))

\* expense_repo.get_monthly_totals(telegram_user_id, months=months)
get_monthly_totals_call(telegram_user_id, months) ==
    /\ Idle
    /\ call' = [op |-> "get_monthly_totals",
                telegram_user_id |-> telegram_user_id, months |-> months]
    /\ raised' = "None"
    /\ result' = Some(get_monthly_totals(expenses, telegram_user_id, months))
    /\ trace' = <<>>
    /\ UNCHANGED <<service, others, repos>>

\* the most months a caller asks for, and the dates and amounts of the
\* stored expenses
MaxMonths == 3
ExpenseDates ==
    {[year |-> 2025, month |-> 9], [year |-> 2025, month |-> 12],
     [year |-> 2026, month |-> 1]}
DatedExpenses ==
    {[date |-> d] @@ Expense(a, "USD", None, None, Some(u)) :
       d \in ExpenseDates, a \in {550, 5000}, u \in {1, 2}}

\* a repository that holds any expenses of two users
TotalsInit ==
    /\ service = [category_repo |-> TRUE, expense_repo |-> TRUE]
    /\ categories = <<>>
    /\ \E n \in 0..MaxExpenses : \E stored \in [1..n -> DatedExpenses] :
          expenses = [i \in 1..n |-> [stored[i] EXCEPT !.id = Some(i)]]
    /\ next_id = Len(expenses) + 1
    /\ call = NoCall
    /\ raised = "None"
    /\ result = None
    /\ trace = <<>>
    /\ text = <<>>
    /\ NoRequest
    /\ assistant = None
    /\ messages = <<>>
    /\ provider_calls = <<>>
    /\ session = None

TotalsNext ==
    \/ \E u \in {1, 2}, n \in 0..MaxMonths : get_monthly_totals_call(u, n)
    \/ Return

TotalsSpec == TotalsInit /\ [][TotalsNext]_vars

--------------------------------------------------------------------------
(* C27 *)

\* the last operation asked for monthly totals
IsMonthlyTotals == call.op = "get_monthly_totals"

\* the stored expenses of user u, and those dated in the month of key
ExpensesOf(u) ==
    {i \in DOMAIN expenses : expenses[i].telegram_user_id = Some(u)}
ExpensesIn(u, key) ==
    {i \in ExpensesOf(u) : strftime_year_month(expenses[i].date) = key}

\* the month of a date, counted from year 0
MonthNumber(date) == 12 * date.year + date.month

\* the sum of the amounts of the expenses ids
RECURSIVE AmountOf(_)
AmountOf(ids) ==
    IF ids = {} THEN 0
    ELSE LET i == CHOOSE k \in ids : TRUE
         IN  expenses[i].amount + AmountOf(ids \ {i})

\* C27: get_monthly_totals(u, months=n), n >= 0, returns at most n (month,
\* total) pairs in ascending month order: the n most recent months in which
\* u has expenses, each total the sum of u's amounts dated in that month.
C27_MonthlyTotals ==
    IsMonthlyTotals =>
        LET u == call.telegram_user_id
            n == call.months
            pairs == result[1]
            all == {MonthNumber(expenses[i].date) : i \in ExpensesOf(u)}
            reported(k) ==
                {MonthNumber(expenses[i].date) : i \in ExpensesIn(u, pairs[k][1])}
            returned == UNION {reported(k) : k \in DOMAIN pairs}
        IN  /\ Len(pairs) <= n
            /\ \A k \in DOMAIN pairs :
                  /\ Cardinality(reported(k)) = 1
                  /\ pairs[k][2] = AmountOf(ExpensesIn(u, pairs[k][1]))
            /\ \A j, k \in DOMAIN pairs :
                  j < k => \A a \in reported(j), b \in reported(k) : a < b
            /\ returned \subseteq all
            /\ \A a \in returned, b \in all \ returned : a > b
            /\ Cardinality(returned) =
                  IF n < Cardinality(all) THEN n ELSE Cardinality(all)

--------------------------------------------------------------------------
(* Requests handled at once, each on its own session (api/deps.py) *)

\* the most requests in flight
MaxRequests == 2

\* the assistant's classification of a request's description
ClassifiedAs(name) ==
    [category |-> name, total_amount |-> 550, currency |-> "USD",
     confidence |-> 95, cost |-> 1, comments |-> None,
     timestamp |-> "completion"]

\* request r goes on as `request`; nothing but the tables and the requests
\* changes while requests are handled
handled(r, request) ==
    /\ in_flight' = [in_flight EXCEPT ![r] = request]
    /\ UNCHANGED <<service, next_id, call, raised, result, trace, text,
                   preferences, api_key, answer, user_data, state, assistant,
                   messages, provider_calls, session>>

\* a request arrives and gets its session
arrives(request) ==
    /\ Len(in_flight) < MaxRequests
    /\ in_flight' = Append(in_flight, request)
    /\ UNCHANGED <<service, repos, call, raised, result, trace, text,
                   preferences, api_key, answer, user_data, state, assistant,
                   messages, provider_calls, session>>

\* POST /classify of a description the assistant classifies as `name`, up
\* to the call of _persist_expense
classify_request(name, user_id) ==
    arrives([op |-> "classify", pc |-> "category_repo.get",
             response |-> ClassifiedAs(name), user_id |-> user_id,
             existed |-> name \in DOMAIN categories,
             category |-> None, expense |-> None, status_code |-> None])

\* _persist_expense: category_repo.get(name=category_name)
persist_category_get(r) ==
    LET q == in_flight[r]
        got == DBCategoryRepo_get(categories, category_name(q.response))
    IN  /\ q.pc = "category_repo.get"
        /\ IF got.raised = "None"
           THEN handled(r, [q EXCEPT !.pc = "expense_repo.add",
                                     !.category = got.value])
           ELSE handled(r, [q EXCEPT !.pc = "category_repo.add"])
        /\ UNCHANGED <<categories, expenses>>

\* _persist_expense: category_repo.add(category) after the lookup missed;
\* an exception leaves classify and the route answers 500
persist_category_add(r) ==
    LET q == in_flight[r]
        name == category_name(q.response)
        added == DBCategoryRepo_add(categories, ExpenseCategory(name))
    IN  /\ q.pc = "category_repo.add"
        /\ categories' = added.categories
        /\ IF added.raised = "None"
           THEN handled(r, [q EXCEPT !.pc = "expense_repo.add",
                                     !.category = Some(categories'[name])])
           ELSE handled(r, [q EXCEPT !.pc = "done",
                                     !.status_code = Some(500)])
        /\ UNCHANGED expenses

\* _persist_expense: expense_repo.add(expense); the route answers 201
persist_expense_add(r) ==
    LET q == in_flight[r]
        added == DBExpenseRepo_add(
                     expenses,
                     new_expense(q.response, <<"a">>, q.category[1],
                                 Some(q.user_id)))
    IN  /\ q.pc = "expense_repo.add"
        /\ expenses' = added.expenses
        /\ handled(r, [q EXCEPT !.pc = "done",
                                !.expense = Some(added.expense),
                                !.status_code = Some(201)])
        /\ UNCHANGED categories

\* DELETE /{expense_id} arrives
delete_request(expense_id, user_id) ==
    arrives([op |-> "delete", pc |-> "expense_repo.get",
             expense_id |-> expense_id, user_id |-> user_id,
             existed |-> expense_id \in DOMAIN expenses,
             expense |-> None, status_code |-> None])

\* delete_expense: expense_repo.get(expense_id) and the ownership check
delete_get(r) ==
    LET q == in_flight[r]
        got == DBExpenseRepo_get(expenses, q.expense_id)
    IN  /\ q.op = "delete" /\ q.pc = "expense_repo.get"
        /\ IF got.raised # "None" \/ ~owned_by(got.value[1], q.user_id)
           THEN handled(r, [q EXCEPT !.pc = "done",
                                     !.status_code = Some(404)])
           ELSE handled(r, [q EXCEPT !.pc = "expense_repo.delete",
                                     !.expense = got.value])
        /\ UNCHANGED <<categories, expenses>>

\* what the route answers when the row went away after the request's
\* lookup: session.get hands back the object the session still holds and
\* the DELETE of no row is committed (204), or it finds nothing and the
\* ExpenseNotFoundError leaves the route (500)
StaleDeleteAnswers == {204, 500}

\* delete_expense: expense_repo.delete(expense_id); the route answers 204
delete_delete(r) ==
    LET q == in_flight[r]
    IN  /\ q.op = "delete" /\ q.pc = "expense_repo.delete"
        /\ expenses' = DBExpenseRepo_delete(expenses, q.expense_id).expenses
        /\ \E status_code \in
                (IF q.expense_id \in DOMAIN expenses THEN {204}
                 ELSE StaleDeleteAnswers) :
              handled(r, [q EXCEPT !.pc = "done",
                                   !.status_code = Some(status_code)])
        /\ UNCHANGED categories

\* the category names the assistant returns
RequestCategories == {<<"f">>, <<"g">>}

\* no request in flight; the tables are empty or hold one expense of user 1
ConcurrentInit ==
    /\ service = [category_repo |-> TRUE, expense_repo |-> TRUE]
    /\ \E stored \in BOOLEAN :
          LET category == [ExpenseCategory(<<"f">>) EXCEPT !.id = Some(1)]
              expense ==
                  [new_expense(ClassifiedAs(<<"f">>), <<"a">>, category,
                               Some(1)) EXCEPT !.id = Some(1)]
          IN  IF stored
              THEN categories = (<<"f">> :> category)
                     /\ expenses = (1 :> expense)
              ELSE categories = <<>> /\ expenses = <<>>
    /\ next_id = 1
    /\ call = NoCall
    /\ raised = "None"
    /\ result = None
    /\ trace = <<>>
    /\ text = <<>>
    /\ NoRequest
    /\ assistant = None
    /\ messages = <<>>
    /\ provider_calls = <<>>
    /\ session = Some(Session(FALSE))

ConcurrentNext ==
    \/ \E name \in RequestCategories : classify_request(name, 1)
    \/ \E i \in 1..MaxExpenses, u \in {1, 2} : delete_request(i, u)
    \/ \E r \in DOMAIN in_flight :
          \/ in_flight[r].op = "classify" /\ persist_category_get(r)
          \/ in_flight[r].op = "classify" /\ persist_category_add(r)
          \/ in_flight[r].op = "classify" /\ persist_expense_add(r)
          \/ delete_get(r)
          \/ delete_delete(r)

ConcurrentSpec == ConcurrentInit /\ [][ConcurrentNext]_vars

--------------------------------------------------------------------------
(* C28, C29 *)

\* requests r and s, both answered, are two requests of this kind that
\* were in flight together
AnsweredTogether(r, s, op) ==
    /\ r # s
    /\ in_flight[r].op = op /\ in_flight[s].op = op
    /\ in_flight[r].pc = "done" /\ in_flight[s].pc = "done"

\* C28: two classify(persist=True) requests that name the same category,
\* which did not exist when either arrived, both complete successfully,
\* under every interleaving of their lookup and add steps; one category row
\* has the name afterwards and both new expenses reference it.
C28_ConcurrentGetOrCreate ==
    \A r, s \in DOMAIN in_flight :
       ( /\ AnsweredTogether(r, s, "classify")
         /\ in_flight[r].response.category = in_flight[s].response.category
         /\ ~in_flight[r].existed /\ ~in_flight[s].existed ) =>
            LET name == in_flight[r].response.category
            IN  /\ in_flight[r].status_code = Some(201)
                /\ in_flight[s].status_code = Some(201)
                /\ name \in DOMAIN categories
                /\ in_flight[r].expense[1].category = Some(categories[name])
                /\ in_flight[s].expense[1].category = Some(categories[name])

\* C29: of the DELETE requests the owner issues at once for one stored
\* expense, exactly one answers 204 and every other one 404, under every
\* interleaving of their lookup and delete steps; none ends with an
\* unhandled not-found error.
C29_ConcurrentDelete ==
    \A r, s \in DOMAIN in_flight :
       ( /\ AnsweredTogether(r, s, "delete")
         /\ in_flight[r].expense_id = in_flight[s].expense_id
         /\ in_flight[r].user_id = 1 /\ in_flight[s].user_id = 1
         /\ in_flight[r].existed /\ in_flight[s].existed ) =>
            /\ {in_flight[r].status_code, in_flight[s].status_code}
                  = {Some(204), Some(404)}

--------------------------------------------------------------------------
(* The conversation when a step of handle_category_selection fails *)

\* the steps of the try block
SelectionSteps ==
    {"none", "persistence", "preference lookup", "amount formatting",
     "message edit"}

FaultNext ==
    \/ \E t \in BotTexts, first \in BotOutcomes :
          handle_expense_text(t, BotUser, first)
    \/ \E d \in CallbackData, failing \in SelectionSteps :
          handle_category_selection_step(d, BotUser, failing)
    \/ cancel_command(BotUser)
    \/ BotReturn

FaultSpec == BotInit /\ [][FaultNext]_vars

--------------------------------------------------------------------------
(* C30 *)

\* C30: the message handle_category_selection shows agrees with the stored
\* state, whichever step of the handler fails: "saved" only if the handler
\* persisted an expense, "could not be saved" only if it persisted none.
C30_MessageAgreesWithStore ==
    [][(answer' # None /\ Handler' = "handle_category_selection") =>
          /\ answer'.reply = "Expense saved" => expenses' # expenses
          /\ answer'.reply = "Sorry, I couldn't save your expense" =>
                expenses' = expenses]_vars

====
